---- MODULE Spec2Model ----
(***************************************************************************)
(* Model of the Dell EMC XtremIO Cinder driver                             *)
(* (cinder/volume/drivers/dell_emc/xtremio.py): the REST client's          *)
(* request / retry / error-translation layer, its two client variants      *)
(* (XtremIOClient3, XtremIOClient4) and the driver operations on top.      *)
(*                                                                         *)
(* Conventions.                                                            *)
(*  - A Python string that the code inspects (an XMS error message) is the *)
(*    sequence of its '_'-separated words: 'obj_not_found' is              *)
(*    <<"obj","not","found">>.  str.endswith is a suffix test and `in` a   *)
(*    contiguous-subsequence test on these sequences; over the word        *)
(*    alphabet used here no word is a proper prefix or suffix of another   *)
(*    match word, so both agree with the character-level tests.            *)
(*  - A Python dict is a function from its keys (strings); {} is EmptyDict.*)
(*  - None / '' for a name is "", None / 0 for an index is 0 (both falsy). *)
(*  - An exception is [cls, msg]; cls is the Python class name.            *)
(***************************************************************************)
EXTENDS Integers, Sequences, FiniteSets, TLC

VARIABLES client, arr, last, portals, tasks

vars == <<client, arr, last, portals, tasks>>

-----------------------------------------------------------------------------
(* Bounds of the model *)

\* longest run of busy answers the environment gives to one req call
MaxBusy == 6

\* number of volumes (snapshots included) the array has room for
MaxVols == 3

\* number of req calls of one operation whose answers the environment scripts
MaxScript == 3

\* the highest LUN number of the lun-maps an array starts with
MaxLun == 3

-----------------------------------------------------------------------------
(* Program constants *)

\* the defaults of the options xtremio_array_busy_retry_count and
\* xtremio_array_busy_retry_interval
xtremio_array_busy_retry_count == 5
xtremio_array_busy_retry_interval == 5

OBJ_NOT_FOUND_ERR == <<"obj", "not", "found">>
VOL_NOT_UNIQUE_ERR == <<"vol", "obj", "name", "not", "unique">>
VOL_OBJ_NOT_FOUND_ERR == <<"vol", "obj", "not", "found">>
ALREADY_MAPPED_ERR == <<"already", "mapped">>
SYSTEM_BUSY == <<"system", "is", "busy">>
TOO_MANY_OBJECTS == <<"too", "many", "objs">>
TOO_MANY_SNAPSHOTS_PER_VOL == <<"too", "many", "snapshots", "per", "vol">>

XTREMIO_OID_NAME == 1

XTREMIO_OID_INDEX == 2

-----------------------------------------------------------------------------
(* Python helpers *)

\* seq[k] with Python's subscripts, which start at 0
Sub(seq, k) == seq[k + 1]

EmptyDict == [k \in {} |-> ""]

\* `t in s` for strings
Contains(s, t) ==
    \E i \in 1..(Len(s) - Len(t) + 1) : SubSeq(s, i, i + Len(t) - 1) = t

\* a variant of EndsWith that accepts t anywhere in s
EndsWith_Anywhere(s, t) == Contains(s, t)

\* str.endswith
EndsWith(s, t) ==
    /\ Len(s) >= Len(t)
    /\ SubSeq(s, Len(s) - Len(t) + 1, Len(s)) = t

\* str(n) / '%d' % n for the small indexes of the model
Digits == <<"1", "2", "3", "4", "5", "6", "7", "8", "9">>

ToStr(n) == IF n = 0 THEN "0" ELSE Digits[n]

\* int(s)
ToInt(s) == IF s = "0" THEN 0 ELSE CHOOSE n \in 1..Len(Digits) : Digits[n] = s

\* a set of integers as the ascending sequence of its elements
RECURSIVE SortedSeq(_)
SortedSeq(S) ==
    IF S = {} THEN <<>>
    ELSE LET m == CHOOSE x \in S : \A y \in S : x <= y
         IN  <<m>> \o SortedSeq(S \ {m})

Exc(cls, msg) == [cls |-> cls, msg |-> msg]

Raise(e) == [kind |-> "raise", exc |-> e]

\* a returned parsed JSON body (t = "json") or a returned string (t = "str")
Return(t, v) == [kind |-> "return", t |-> t, val |-> v]

\* the exception classes of cinder.exception the driver raises, with the
\* classes an `except` clause naming `base` catches
Subclasses(base) ==
    CASE base = "NotFound" -> {"NotFound", "VolumeNotFound"}
      [] base = "VolumeDriverException" ->
            {"VolumeDriverException", "XtremIODriverException",
             "XtremIOAlreadyMappedError", "XtremIOArrayBusy",
             "XtremIOSnapshotsLimitExceeded"}
      [] OTHER -> {base}

Catches(base, out) == out.kind = "raise" /\ out.exc.cls \in Subclasses(base)

\* the members of the driver's error taxonomy
Taxonomy ==
    {"NotFound", "VolumeNotFound", "VolumeBackendAPIException",
     "VolumeDriverException", "XtremIOAlreadyMappedError", "XtremIOArrayBusy",
     "XtremIOSnapshotsLimitExceeded"}

-----------------------------------------------------------------------------
(* HTTP responses: [status, json], json = [ok, val]: the body parses as the *)
(* JSON object val, or (ok = FALSE) response.json() raises ValueError.      *)

Response(status, body) == [status |-> status, json |-> [ok |-> TRUE, val |-> body]]

NotJson(status) == [status |-> status, json |-> [ok |-> FALSE, val |-> EmptyDict]]

ErrorResponse(msg) == Response(400, "message" :> msg)

\* what the environment does with one HTTP request:
\*   "resp": answers with the response `resp`
\*   "exc":  the transport raises requests.exceptions.RequestException
\*   "honest": the array processes the request (ArrayHandle)
\*   "raced": a concurrent operation deletes the lun-map the request
\*            addresses, then the array processes the request
Canned(resp) == [kind |-> "resp", resp |-> resp]

TransportFault == [kind |-> "exc", resp |-> NotJson(0)]

Honest == [kind |-> "honest", resp |-> NotJson(0)]

Raced == [kind |-> "raced", resp |-> NotJson(0)]

-----------------------------------------------------------------------------
(* The XMS array (the environment the client talks to).                     *)
(* arr = [vols, luns, igs, clusters, iscsi]: volumes (snapshots are volumes  *)
(* too)                                                                     *)
(* [index, name]; lun-maps [index, vol, ig, lun]; initiator groups          *)
(* [index, name].  The array gives a new object the smallest unused index.  *)

\* ids the framework uses for volumes and snapshots
Ids == {"v1", "s1"}

\* the name the array gives the snapshot of `src` made with suffix `suffix`
\* (src + '.' + suffix)
AnonName(src, suffix) == src \o "." \o suffix

IGNames == {"ig1", "ig2"}

InitialIGs == {[index |-> 1, name |-> "ig1"], [index |-> 2, name |-> "ig2"]}

FreeIndex(objs) ==
    CHOOSE i \in 1..(Cardinality(objs) + 1) : \A o \in objs : o.index # i

\* the lowest LUN number the initiator group does not use yet
FreeLun(a, ig) ==
    LET used == {m.lun : m \in {x \in a.luns : x.ig = ig}}
    IN  CHOOSE l \in 1..(Cardinality(used) + 1) : l \notin used

\* 'https://<san_ip>/api/json[/v2]/types/<type>/<idx>'.split('/')
Href(ver, type, idx) ==
    IF ver = "v2"
    THEN <<"https:", "", "xms", "api", "json", "v2", "types", type, ToStr(idx)>>
    ELSE <<"https:", "", "xms", "api", "json", "types", type, ToStr(idx)>>

Link(ver, type, idx) == "href" :> Href(ver, type, idx)

Created(ver, type, idx) == Response(201, "links" :> <<Link(ver, type, idx)>>)

Ok200 == Response(200, EmptyDict)

ObjNotFound(word) == ErrorResponse(<<word>> \o OBJ_NOT_FOUND_ERR)

VolContent(v) == ("index" :> v.index) @@ ("name" :> v.name)

LunMapContent(m) ==
    ("index" :> m.index) @@ ("vol-name" :> m.vol) @@ ("ig-name" :> m.ig)
        @@ ("lun" :> m.lun)

\* the objects of `objs` the request addresses: by params['name'], else by
\* the index in the URL
Addressed(objs, h) ==
    IF "name" \in DOMAIN h.params
    THEN {o \in objs : o.name = h.params["name"]}
    ELSE {o \in objs : o.index = h.idx}

\* the new name a PUT on a volume asks for ('name' or 'vol-name'), "" if none
NewName(h) ==
    IF "name" \in DOMAIN h.data THEN h.data["name"]
    ELSE IF "vol-name" \in DOMAIN h.data THEN h.data["vol-name"]
    ELSE ""

\* the content of a volume: 'ancestor-vol-id' is [id, name, index] of the
\* volume it is a snapshot of ([] if none or if the ancestor is deleted),
\* 'num-of-dest-snaps' the number of its snapshots
VolumeContent(a, v) ==
    LET ancs == {o \in a.vols : o.index = v.anc}
        anc == CHOOSE o \in ancs : TRUE
    IN  VolContent(v)
            @@ ("ancestor-vol-id" :>
                    IF ancs = {} THEN <<>>
                    ELSE <<ToStr(anc.index), anc.name, anc.index>>)
            @@ ("num-of-dest-snaps" :>
                    Cardinality({o \in a.vols : o.anc = v.index}))

\* the array without the volumes with the indexes idxs: their lun-maps go
\* with them, they leave their consistency groups and snapshot sets, and a
\* snapshot set that loses its last snapshot goes as well
WithoutVolumes(a, idxs) ==
    LET gone == {o.name : o \in {x \in a.vols : x.index \in idxs}}
    IN  [a EXCEPT
           !.vols = {o \in @ : o.index \notin idxs},
           !.luns = {m \in @ : m.vol \notin gone},
           !.cgs = {[g EXCEPT !.vols = @ \ idxs] : g \in @},
           !.snapsets = {[n EXCEPT !.vols = @ \ idxs] :
                           n \in {x \in @ : x.vols \ idxs # {}}}]

ArrayVolumes(a, h) ==
    LET hit == Addressed(a.vols, h)
        v == CHOOSE o \in hit : TRUE
        order == SortedSeq({o.index : o \in a.vols})
        Entry(i) ==
            LET o == CHOOSE x \in a.vols : x.index = i
            IN  IF "full" \in DOMAIN h.params
                THEN VolumeContent(a, o)
                ELSE Link(h.ver, "volumes", i) @@ ("name" :> o.name)
    IN
    CASE h.method = "GET" /\ h.idx = 0 /\ "name" \notin DOMAIN h.params ->
            [resp |-> Response(200, "volumes" :>
                          [k \in 1..Len(order) |-> Entry(order[k])]),
             arr |-> a]
      [] h.method = "POST" ->
            IF \E o \in a.vols : o.name = h.data["vol-name"]
            THEN [resp |-> ErrorResponse(VOL_NOT_UNIQUE_ERR), arr |-> a]
            ELSE IF Cardinality(a.vols) >= MaxVols
            THEN [resp |-> ErrorResponse(TOO_MANY_OBJECTS), arr |-> a]
            ELSE LET i == FreeIndex(a.vols)
                 IN  [resp |-> Created(h.ver, "volumes", i),
                      arr |-> [a EXCEPT !.vols = @ \cup
                                  {[index |-> i, name |-> h.data["vol-name"],
                                    anc |-> 0]}]]
      [] hit = {} -> [resp |-> ObjNotFound("vol"), arr |-> a]
      [] h.method = "GET" ->
            [resp |-> Response(200, "content" :> VolumeContent(a, v)),
             arr |-> a]
      [] h.method = "DELETE" ->
            [resp |-> Ok200, arr |-> WithoutVolumes(a, {v.index})]
      [] OTHER -> \* PUT
            IF NewName(h) = "" \/ NewName(h) = v.name
            THEN [resp |-> Ok200, arr |-> a]
            ELSE IF \E o \in a.vols : o.name = NewName(h)
            THEN [resp |-> ErrorResponse(VOL_NOT_UNIQUE_ERR), arr |-> a]
            ELSE [resp |-> Ok200,
                  arr |-> [a EXCEPT
                     !.vols = (@ \ {v}) \cup {[v EXCEPT !.name = NewName(h)]},
                     !.luns = {IF m.vol = v.name
                               THEN [m EXCEPT !.vol = NewName(h)] ELSE m
                               : m \in @}]]

\* POST snapshots: Variant A names the snapshot itself ('snap-vol-name' of
\* 'ancestor-vol-id'); Variant B makes a snapshot set of 'volume-list' whose
\* volumes are named by 'snap-suffix'
\* the n lowest indexes that no object of objs has, in order
FreeIndexes(objs, n) ==
    SubSeq(SortedSeq((1..(Cardinality(objs) + n)) \ {o.index : o \in objs}),
           1, n)

\* POST snapshots with 'consistency-group-id': a snapshot set named
\* 'snapshot-set-name' with one snapshot of every volume of the group
ArrayCgSnapshots(a, h) ==
    LET groups == {g \in a.cgs : g.name = h.data["consistency-group-id"]}
        g == CHOOSE x \in groups : TRUE
        set == h.data["snapshot-set-name"]
        members == SortedSeq(g.vols)
        Src(k) == CHOOSE o \in a.vols : o.index = members[k]
        idx == FreeIndexes(a.vols, Len(members))
        made == {[index |-> idx[k], name |-> AnonName(Src(k).name, set),
                  anc |-> members[k]] : k \in 1..Len(members)}
        i == FreeIndex(a.snapsets)
    IN  IF groups = {} THEN [resp |-> ObjNotFound("cg"), arr |-> a]
        ELSE IF g.vols = {}
        THEN [resp |-> ErrorResponse(<<"cg", "is", "empty">>), arr |-> a]
        ELSE IF \E n \in a.snapsets : n.name = set
        THEN [resp |-> ErrorResponse(<<"snapshot", "set", "name", "not",
                                      "unique">>), arr |-> a]
        ELSE IF \E o \in a.vols, n \in made : o.name = n.name
        THEN [resp |-> ErrorResponse(VOL_NOT_UNIQUE_ERR), arr |-> a]
        ELSE IF Cardinality(a.vols) + Len(members) > MaxVols
        THEN [resp |-> ErrorResponse(TOO_MANY_OBJECTS), arr |-> a]
        ELSE [resp |-> Created(h.ver, "snapshot-sets", i),
              arr |-> [a EXCEPT
                         !.vols = @ \cup made,
                         !.snapsets = @ \cup
                             {[index |-> i, name |-> set,
                               vols |-> {n.index : n \in made}]}]]

ArraySnapshots(a, h) ==
    LET v2 == "volume-list" \in DOMAIN h.data
        src == IF v2 THEN h.data["volume-list"][1]
               ELSE h.data["ancestor-vol-id"]
        new == IF v2 THEN AnonName(src, h.data["snap-suffix"])
               ELSE h.data["snap-vol-name"]
        i == FreeIndex(a.vols)
    IN
    IF "consistency-group-id" \in DOMAIN h.data THEN ArrayCgSnapshots(a, h)
    ELSE IF ~\E o \in a.vols : o.name = src
    THEN [resp |-> ObjNotFound("vol"), arr |-> a]
    ELSE IF \E o \in a.vols : o.name = new
    THEN [resp |-> ErrorResponse(VOL_NOT_UNIQUE_ERR), arr |-> a]
    ELSE IF Cardinality(a.vols) >= MaxVols
    THEN [resp |-> ErrorResponse(TOO_MANY_OBJECTS), arr |-> a]
    ELSE [resp |-> Created(h.ver, "volumes", i),
          arr |-> [a EXCEPT !.vols = @ \cup
                      {[index |-> i, name |-> new,
                        anc |-> (CHOOSE o \in a.vols : o.name = src).index]}]]

\* the target group every lun-map belongs to
DefaultTargetGroup == [index |-> 1, name |-> "Default"]

\* the target ports of the array: two Fibre Channel ports, one of them down,
\* and an iSCSI port
Targets ==
    <<[index |-> 1, name |-> "X1-SC1-fc1", port |-> "21:00", state |-> "up"],
      [index |-> 2, name |-> "X1-SC1-fc2", port |-> "21:01",
       state |-> "down"],
      [index |-> 3, name |-> "X1-SC1-iscsi1", port |-> "iqn.p1",
       state |-> "up"]>>

\* a 'prop:eq:value' filter, as its ':'-separated parts, against a lun-map
Matches(m, f) == LunMapContent(m)[f[1]] = f[3]

\* the name the array gives a lun-map: the indexes of its volume, of its
\* initiator group and of the target group, joined by '_'
LunMapName(a, m) ==
    LET IndexOf(objs, name) ==
            IF \E o \in objs : o.name = name
            THEN (CHOOSE o \in objs : o.name = name).index ELSE 0
    IN  ToStr(IndexOf(a.vols, m.vol)) \o "_" \o ToStr(IndexOf(a.igs, m.ig))
            \o "_" \o ToStr(DefaultTargetGroup.index)

ArrayLunMaps(a, h) ==
    LET hit == IF "name" \in DOMAIN h.params
               THEN {m \in a.luns : LunMapName(a, m) = h.params["name"]}
               ELSE {m \in a.luns : m.index = h.idx}
        m == CHOOSE o \in hit : TRUE
        filters == IF "filter" \in DOMAIN h.params
                   THEN h.params["filter"] ELSE <<>>
        listed == {o \in a.luns :
                     \A k \in 1..Len(filters) : Matches(o, filters[k])}
        order == SortedSeq({o.index : o \in listed})
        Entry(i) ==
            LET o == CHOOSE x \in listed : x.index = i
            IN  IF "full" \in DOMAIN h.params
                THEN LunMapContent(o)
                ELSE Link(h.ver, "lun-maps", i)
    IN
    CASE h.method = "POST" ->
            LET vol == h.data["vol-id"]
                ig == h.data["ig-id"]
                lun == IF "lun" \in DOMAIN h.data
                       THEN h.data["lun"] ELSE FreeLun(a, ig)
                i == FreeIndex(a.luns)
            IN  IF ~\E o \in a.vols : o.name = vol
                THEN [resp |-> ObjNotFound("vol"), arr |-> a]
                ELSE IF ~\E o \in a.igs : o.name = ig
                THEN [resp |-> ObjNotFound("ig"), arr |-> a]
                ELSE IF \E o \in a.luns : o.vol = vol /\ o.ig = ig
                THEN [resp |-> ErrorResponse(<<"vol">> \o ALREADY_MAPPED_ERR),
                      arr |-> a]
                ELSE [resp |-> Created(h.ver, "lun-maps", i),
                      arr |-> [a EXCEPT !.luns = @ \cup
                          {[index |-> i, vol |-> vol, ig |-> ig, lun |-> lun]}]]
      [] h.method = "GET" /\ h.idx = 0 /\ "name" \notin DOMAIN h.params ->
            [resp |-> Response(200, "lun-maps" :>
                          [k \in 1..Len(order) |-> Entry(order[k])]),
             arr |-> a]
      [] hit = {} -> [resp |-> ObjNotFound("lun_map"), arr |-> a]
      [] h.method = "GET" ->
            [resp |-> Response(200, "content" :> LunMapContent(m)), arr |-> a]
      [] h.method = "DELETE" ->
            [resp |-> Ok200, arr |-> [a EXCEPT !.luns = @ \ {m}]]
      [] OTHER -> [resp |-> Ok200, arr |-> a]

\* 'sys-sw-version' texts as their tokens: digits, '.' and '-' separators
\* and the build suffix ("4.0.2-80" is <<"4", ".", "0", ".", "2", "-", "80">>)
Version(major, minor, patch, build) ==
    <<ToStr(major), ".", ToStr(minor), ".", ToStr(patch), "-", build>>

\* a CHAP mode of "" stands for a cluster that does not report the property
ClusterContent(c) ==
    ("index" :> c.index) @@ ("name" :> c.name)
        @@ ("sys-sw-version" :> c.version)
        @@ (IF c.login = "" THEN EmptyDict
            ELSE "chap-authentication-mode" :> c.login)
        @@ (IF c.disc = "" THEN EmptyDict
            ELSE "chap-discovery-mode" :> c.disc)

\* clusters: the listing gives href and name of every cluster; a cluster is
\* read by name or by index
ArrayClusters(a, h) ==
    LET hit == {i \in 1..Len(a.clusters) :
                   IF "name" \in DOMAIN h.params
                   THEN a.clusters[i].name = h.params["name"]
                   ELSE a.clusters[i].index = h.idx}
    IN  IF h.method # "GET"
        THEN [resp |-> ErrorResponse(<<"invalid", "command">>), arr |-> a]
        ELSE IF h.idx = 0 /\ "name" \notin DOMAIN h.params
        THEN [resp |-> Response(200, "clusters" :>
                          [k \in 1..Len(a.clusters) |->
                              Link(h.ver, "clusters", a.clusters[k].index)
                                  @@ ("name" :> a.clusters[k].name)]),
              arr |-> a]
        ELSE IF hit = {}
        THEN [resp |-> ObjNotFound("cluster"), arr |-> a]
        ELSE [resp |-> Response(200, "content" :>
                          ClusterContent(a.clusters[CHOOSE i \in hit : TRUE])),
              arr |-> a]

\* 'ip-addr' is address/prefix, kept as its '/'-separated parts
PortalContent(q) ==
    ("index" :> q.index) @@ ("name" :> q.name) @@ ("ip-addr" :> q.ip)
        @@ ("ip-port" :> 3260) @@ ("port-address" :> q.iqn)

\* iscsi-portals: listed with href and name, read by name or by index
ArrayIscsiPortals(a, h) ==
    LET hit == {i \in 1..Len(a.iscsi) :
                   IF "name" \in DOMAIN h.params
                   THEN a.iscsi[i].name = h.params["name"]
                   ELSE a.iscsi[i].index = h.idx}
    IN  IF h.method # "GET"
        THEN [resp |-> ErrorResponse(<<"invalid", "command">>), arr |-> a]
        ELSE IF h.idx = 0 /\ "name" \notin DOMAIN h.params
        THEN [resp |-> Response(200, "iscsi-portals" :>
                          [k \in 1..Len(a.iscsi) |->
                              IF "full" \in DOMAIN h.params
                              THEN PortalContent(a.iscsi[k])
                              ELSE Link(h.ver, "iscsi-portals",
                                        a.iscsi[k].index)
                                       @@ ("name" :> a.iscsi[k].name)]),
              arr |-> a]
        ELSE IF hit = {}
        THEN [resp |-> ObjNotFound("iscsi_portal"), arr |-> a]
        ELSE [resp |-> Response(200, "content" :>
                          PortalContent(a.iscsi[CHOOSE i \in hit : TRUE])),
              arr |-> a]

\* 'ig-id' and the like: [guid, name, index]
Oid(o) == <<ToStr(o.index), o.name, o.index>>

\* the content of a consistency group or snapshot set g = [index, name,
\* vols]: 'vol-list' names its volumes, in the order of their indexes
GroupContent(a, g) ==
    LET members == SortedSeq(g.vols)
    IN  VolContent(g)
            @@ ("vol-list" :>
                    [k \in 1..Len(members) |->
                        Oid(CHOOSE o \in a.vols : o.index = members[k])])

\* consistency groups and snapshot sets (a.cgs, a.snapsets), read and
\* deleted by name or by index; word is the object's word in the array's
\* not-found message, without the array once the addressed object is deleted
ArrayNamed(a, h, objs, word, without) ==
    LET hit == Addressed(objs, h)
        o == CHOOSE x \in hit : TRUE
    IN  CASE hit = {} -> [resp |-> ObjNotFound(word), arr |-> a]
          [] h.method = "GET" ->
                [resp |-> Response(200, "content" :> GroupContent(a, o)),
                 arr |-> a]
          [] h.method = "DELETE" -> [resp |-> Ok200, arr |-> without]
          [] OTHER ->
                [resp |-> ErrorResponse(<<"invalid", "command">>), arr |-> a]

\* consistency groups: created by 'consistency-group-name' with the volumes
\* 'vol-list' names; deleting a group leaves its volumes
ArrayConsistencyGroups(a, h) ==
    LET name == h.data["consistency-group-name"]
        listed == IF "vol-list" \in DOMAIN h.data THEN h.data["vol-list"]
                  ELSE <<>>
        i == FreeIndex(a.cgs)
    IN  IF h.method # "POST"
        THEN ArrayNamed(a, h, a.cgs, "cg",
                        [a EXCEPT !.cgs = @ \ Addressed(a.cgs, h)])
        ELSE IF \E g \in a.cgs : g.name = name
        THEN [resp |-> ErrorResponse(<<"cg", "name", "is", "already", "in",
                                      "use">>), arr |-> a]
        ELSE IF \E k \in 1..Len(listed) :
                   ~\E o \in a.vols : o.name = listed[k]
        THEN [resp |-> ObjNotFound("vol"), arr |-> a]
        ELSE [resp |-> Created(h.ver, "consistency-groups", i),
              arr |-> [a EXCEPT !.cgs = @ \cup
                         {[index |-> i, name |-> name,
                           vols |-> {o.index : o \in
                                       {x \in a.vols :
                                          \E k \in 1..Len(listed) :
                                              x.name = listed[k]}}]}]]

\* snapshot sets: deleting a set deletes its snapshots
ArraySnapshotSets(a, h) ==
    ArrayNamed(a, h, a.snapsets, "snapset",
               LET hit == Addressed(a.snapsets, h)
               IN  [WithoutVolumes(a, UNION {n.vols : n \in hit})
                       EXCEPT !.snapsets = @ \ hit])

\* consistency-group-volumes: POST adds the volume 'vol-id' to the group
\* 'cg-id', DELETE takes it out
ArrayCgVolumes(a, h) ==
    LET groups == {g \in a.cgs : g.name = h.data["cg-id"]}
        g == CHOOSE x \in groups : TRUE
        vols == {o \in a.vols : o.name = h.data["vol-id"]}
        v == CHOOSE o \in vols : TRUE
        With(members) ==
            [a EXCEPT !.cgs = (@ \ {g}) \cup {[g EXCEPT !.vols = members]}]
    IN  IF h.method \notin {"POST", "DELETE"}
               \/ {"cg-id", "vol-id"} \ DOMAIN h.data # {}
        THEN [resp |-> ErrorResponse(<<"invalid", "command">>), arr |-> a]
        ELSE IF groups = {} THEN [resp |-> ObjNotFound("cg"), arr |-> a]
        ELSE IF vols = {} THEN [resp |-> ObjNotFound("vol"), arr |-> a]
        ELSE IF h.method = "POST"
        THEN IF v.index \in g.vols
             THEN [resp |-> ErrorResponse(<<"vol", "already", "in", "cg">>),
                   arr |-> a]
             ELSE [resp |-> Created(h.ver, "consistency-group-volumes",
                                    g.index),
                   arr |-> With(g.vols \cup {v.index})]
        ELSE IF v.index \notin g.vols
        THEN [resp |-> ObjNotFound("vol"), arr |-> a]
        ELSE [resp |-> Ok200, arr |-> With(g.vols \ {v.index})]

IgContent(g) == VolContent(g) @@ ("ig-id" :> Oid(g))

\* initiator groups: read by name or by index, created by 'ig-name'
ArrayInitiatorGroups(a, h) ==
    LET hit == Addressed(a.igs, h)
    IN  CASE h.method = "POST" ->
                IF \E g \in a.igs : g.name = h.data["ig-name"]
                THEN [resp |-> ErrorResponse(<<"ig", "name", "not", "unique">>),
                      arr |-> a]
                ELSE LET i == FreeIndex(a.igs)
                     IN  [resp |-> Created(h.ver, "initiator-groups", i),
                          arr |-> [a EXCEPT !.igs = @ \cup
                                    {[index |-> i, name |-> h.data["ig-name"]]}]]
          [] hit = {} -> [resp |-> ObjNotFound("ig"), arr |-> a]
          [] h.method = "GET" ->
                [resp |-> Response(200, "content" :>
                              IgContent(CHOOSE g \in hit : TRUE)),
                 arr |-> a]
          [] OTHER ->
                [resp |-> ErrorResponse(<<"invalid", "command">>), arr |-> a]

\* an initiator o = [index, name, port, ig, login, disc] reports its group
\* and its CHAP passwords ("" when it has none)
InitiatorContent(a, o) ==
    VolContent(o) @@ ("port-address" :> o.port)
        @@ ("ig-id" :> Oid(CHOOSE g \in a.igs : g.name = o.ig))
        @@ ("chap-authentication-initiator-password" :> o.login)
        @@ ("chap-discovery-initiator-password" :> o.disc)

\* the passwords of initiator o once the request's data are applied
WithAuth(o, data) ==
    [o EXCEPT
        !.login = IF "initiator-authentication-password" \in DOMAIN data
                  THEN data["initiator-authentication-password"] ELSE @,
        !.disc = IF "initiator-discovery-password" \in DOMAIN data
                 THEN data["initiator-discovery-password"] ELSE @]

\* initiators: listed (filtered by 'prop:eq:value'), read by name or by
\* index, created in an existing group with a new name and port address,
\* modified by index
ArrayInitiators(a, h) ==
    LET hit == Addressed(a.inits, h)
        o == CHOOSE x \in hit : TRUE
        filters == IF "filter" \in DOMAIN h.params
                   THEN h.params["filter"] ELSE <<>>
        listed == {x \in a.inits :
                     \A k \in 1..Len(filters) :
                        InitiatorContent(a, x)[filters[k][1]] = filters[k][3]}
        order == SortedSeq({x.index : x \in listed})
        Entry(i) ==
            LET x == CHOOSE y \in listed : y.index = i
            IN  IF "full" \in DOMAIN h.params
                THEN InitiatorContent(a, x)
                ELSE Link(h.ver, "initiators", i) @@ ("name" :> x.name)
    IN
    CASE h.method = "POST" ->
            IF ~\E g \in a.igs : g.name = h.data["ig-id"]
            THEN [resp |-> ObjNotFound("ig"), arr |-> a]
            ELSE IF \E x \in a.inits : x.name = h.data["initiator-name"]
            THEN [resp |-> ErrorResponse(<<"initiator", "name", "not",
                                           "unique">>), arr |-> a]
            ELSE IF \E x \in a.inits : x.port = h.data["port-address"]
            THEN [resp |-> ErrorResponse(<<"initiator", "port", "address",
                                           "not", "unique">>), arr |-> a]
            ELSE LET i == FreeIndex(a.inits)
                 IN  [resp |-> Created(h.ver, "initiators", i),
                      arr |-> [a EXCEPT !.inits = @ \cup
                          {WithAuth([index |-> i,
                                     name |-> h.data["initiator-name"],
                                     port |-> h.data["port-address"],
                                     ig |-> h.data["ig-id"],
                                     login |-> "", disc |-> ""], h.data)}]]
      [] h.method = "GET" /\ h.idx = 0 /\ "name" \notin DOMAIN h.params ->
            [resp |-> Response(200, "initiators" :>
                          [k \in 1..Len(order) |-> Entry(order[k])]),
             arr |-> a]
      [] hit = {} -> [resp |-> ObjNotFound("initiator"), arr |-> a]
      [] h.method = "GET" ->
            [resp |-> Response(200, "content" :> InitiatorContent(a, o)),
             arr |-> a]
      [] h.method = "PUT" ->
            [resp |-> Ok200,
             arr |-> [a EXCEPT !.inits = (@ \ {o}) \cup {WithAuth(o, h.data)}]]
      [] OTHER ->
            [resp |-> ErrorResponse(<<"invalid", "command">>), arr |-> a]

ArrayTargetGroups(a, h) ==
    IF h.method = "GET" /\ Addressed({DefaultTargetGroup}, h) # {}
    THEN [resp |-> Response(200, "content" :> VolContent(DefaultTargetGroup)),
          arr |-> a]
    ELSE [resp |-> ObjNotFound("tg"), arr |-> a]

TargetContent(t) ==
    VolContent(t) @@ ("port-address" :> t.port) @@ ("port-state" :> t.state)

\* targets: listed with href and name, read by name or by index
ArrayTargets(a, h) ==
    LET hit == {i \in 1..Len(a.targets) :
                   IF "name" \in DOMAIN h.params
                   THEN a.targets[i].name = h.params["name"]
                   ELSE a.targets[i].index = h.idx}
    IN  IF h.method # "GET"
        THEN [resp |-> ErrorResponse(<<"invalid", "command">>), arr |-> a]
        ELSE IF h.idx = 0 /\ "name" \notin DOMAIN h.params
        THEN [resp |-> Response(200, "targets" :>
                          [k \in 1..Len(a.targets) |->
                              Link(h.ver, "targets", a.targets[k].index)
                                  @@ ("name" :> a.targets[k].name)]),
              arr |-> a]
        ELSE IF hit = {}
        THEN [resp |-> ObjNotFound("target"), arr |-> a]
        ELSE [resp |-> Response(200, "content" :>
                          TargetContent(a.targets[CHOOSE i \in hit : TRUE])),
              arr |-> a]

\* the array once a concurrent operation has deleted the lun-map that the
\* request h addresses by index
ConcurrentlyDeleted(a, h) ==
    IF h.type = "lun-maps"
    THEN [a EXCEPT !.luns = {m \in @ : m.index # h.idx}]
    ELSE a

\* the array's answer to the HTTP request h and its state afterwards
ArrayHandle(a, h) ==
    CASE h.type = "volumes" -> ArrayVolumes(a, h)
      [] h.type = "consistency-groups" -> ArrayConsistencyGroups(a, h)
      [] h.type = "snapshot-sets" -> ArraySnapshotSets(a, h)
      [] h.type = "consistency-group-volumes" -> ArrayCgVolumes(a, h)
      [] h.type = "iscsi-portals" -> ArrayIscsiPortals(a, h)
      [] h.type = "clusters" -> ArrayClusters(a, h)
      [] h.type = "snapshots" -> ArraySnapshots(a, h)
      [] h.type = "lun-maps" -> ArrayLunMaps(a, h)
      [] h.type = "initiator-groups" -> ArrayInitiatorGroups(a, h)
      [] h.type = "initiators" -> ArrayInitiators(a, h)
      [] h.type = "target-groups" -> ArrayTargetGroups(a, h)
      [] h.type = "targets" -> ArrayTargets(a, h)
      [] OTHER -> [resp |-> ErrorResponse(<<"invalid", "command">>), arr |-> a]

-----------------------------------------------------------------------------
(* XtremIOClient: the request layer.  client = [cls, cluster_id].           *)

\* handle_errors always ends by raising; this is the exception it raises.
\* Besides the driver's exceptions it can end in a Python error: ValueError
\* (response.json() on a body that is not JSON) or AttributeError
\* (error.get('message') is None, and None has no endswith).
handle_errors(response, key, object_type) ==
    LET bad == Exc("VolumeBackendAPIException", "Bad response from XMS")
    IN
    IF response.status = 400
    THEN IF ~response.json.ok
         THEN Exc("ValueError", "No JSON object could be decoded")
         ELSE LET error == response.json.val
              IN
              IF "message" \notin DOMAIN error
              THEN Exc("AttributeError",
                       "'NoneType' object has no attribute 'endswith'")
              ELSE LET err_msg == error["message"]
                   IN
                   IF EndsWith(err_msg, OBJ_NOT_FOUND_ERR)
                   THEN Exc("NotFound", "")
                   ELSE IF err_msg = VOL_NOT_UNIQUE_ERR
                   THEN Exc("VolumeBackendAPIException",
                            "Volume by this name already exists")
                   ELSE IF err_msg = VOL_OBJ_NOT_FOUND_ERR
                   THEN Exc("VolumeNotFound", key)
                   ELSE IF Contains(err_msg, ALREADY_MAPPED_ERR)
                   THEN Exc("XtremIOAlreadyMappedError", "")
                   ELSE IF err_msg = SYSTEM_BUSY
                   THEN Exc("XtremIOArrayBusy", "")
                   ELSE IF err_msg \in {TOO_MANY_OBJECTS,
                                        TOO_MANY_SNAPSHOTS_PER_VOL}
                   THEN Exc("XtremIOSnapshotsLimitExceeded", "")
                   ELSE bad
    ELSE bad

\* a variant of update_url that adds the cluster name under every client
update_url_Always(cl, params) == ("cluster-name" :> "c1") @@ params

\* update_url: XtremIOClient (and Client3) leave the query alone, Client4
\* adds the cluster name when a cluster id is configured
update_url(cl, params) ==
    IF cl.cls = "XtremIOClient4" /\ cl.cluster_id # ""
    THEN ("cluster-name" :> cl.cluster_id) @@ params
    ELSE params

\* update_data: likewise for the body
update_data(cl, data) ==
    IF cl.cls = "XtremIOClient4" /\ cl.cluster_id # ""
    THEN ("cluster-id" :> cl.cluster_id) @@ data
    ELSE data

\* a variant of IsSuccess that takes status 300 for a success
IsSuccess_UpTo300(status) == 200 <= status /\ status <= 300

\* 200 <= response.status_code < 300
IsSuccess(status) == 200 <= status /\ status < 300

\* what req returns for a 2xx response: response.json() for GET and POST,
\* '' for PUT and DELETE
SuccessResult(method, response) ==
    IF method \in {"GET", "POST"}
    THEN IF response.json.ok
         THEN Return("json", response.json.val)
         ELSE Raise(Exc("ValueError", "No JSON object could be decoded"))
    ELSE Return("str", "")

\* a variant of BothGiven that lets every call through
BothGiven_Never(name, idx) == FALSE

\* if name and idx
BothGiven(name, idx) == name # "" /\ idx # 0

\* One execution of the body of req, with the environment answering `ans`
\* from array state a.  Result: the outcome, the HTTP requests sent (none or
\* one), what was received, the number of handle_errors calls, the array,
\* and the caller's data dict afterwards: update_data writes into the dict
\* the caller passed, unless that was None or empty ('if not data: data = {}'
\* makes a new dict for the attempt).
ReqBody(cl, rq, ans, a) ==
    LET data == rq.data
        named == rq.name # ""
        indexed == rq.idx # 0
        params0 == IF named THEN "name" :> rq.name ELSE EmptyDict
        key == IF named THEN rq.name
               ELSE IF indexed THEN ToStr(rq.idx) ELSE "None"
        params == IF rq.method \in {"GET", "DELETE"}
                  THEN update_url(cl, data @@ params0)
                  ELSE params0
        body == IF rq.method # "GET" THEN update_data(cl, data) ELSE data
        h == [method |-> rq.method, ver |-> rq.ver, type |-> rq.object_type,
              idx |-> IF ~named /\ indexed THEN rq.idx ELSE 0,
              params |-> params, data |-> body]
        after == IF data = EmptyDict THEN data ELSE body
        \* the response has arrived: ar = [resp, arr]
        Received(ar) ==
            IF IsSuccess(ar.resp.status)
            THEN [out |-> SuccessResult(rq.method, ar.resp),
                  sent |-> <<h>>, got |-> <<Canned(ar.resp)>>,
                  classified |-> 0, arr |-> ar.arr, data |-> after]
            ELSE [out |-> Raise(handle_errors(ar.resp, key, rq.object_type)),
                  sent |-> <<h>>, got |-> <<Canned(ar.resp)>>,
                  classified |-> 1, arr |-> ar.arr, data |-> after]
    IN
    IF BothGiven(rq.name, rq.idx)
    THEN [out |-> Raise(Exc("VolumeDriverException",
                            "can't handle both name and index in req")),
          sent |-> <<>>, got |-> <<>>, classified |-> 0, arr |-> a,
          data |-> data]
    ELSE IF ans.kind = "exc"
    THEN [out |-> Raise(Exc("VolumeDriverException", "Exception: %s")),
          sent |-> <<h>>, got |-> <<ans>>, classified |-> 0, arr |-> a,
          data |-> after]
    ELSE Received(IF ans.kind \in {"honest", "raced"}
                  THEN ArrayHandle(IF ans.kind = "raced"
                                   THEN ConcurrentlyDeleted(a, h) ELSE a, h)
                  ELSE [resp |-> ans.resp, arr |-> a])

\* the answer to the attempt-th attempt of a req call under plan
\* [busy, then]: `busy` busy answers, then `then` for every later attempt
AnswerAt(plan, attempt) ==
    IF attempt <= plan.busy THEN Canned(ErrorResponse(SYSTEM_BUSY))
    ELSE plan.then

\* cinder.utils.retry(exceptions, interval, retries, backoff_rate) around the
\* body of req: an attempt that raises `exceptions` is repeated after a sleep
\* of interval * backoff_rate ** attempt, until attempt number `retries`,
\* whose exception is raised to the caller.  Every attempt is called with
\* the same argument objects, so it finds the data dict as the attempt
\* before left it.
RECURSIVE Power(_, _)
Power(b, n) == IF n = 0 THEN 1 ELSE b * Power(b, n - 1)

RECURSIVE retry(_, _, _, _, _, _, _, _, _)
retry(exceptions, interval, retries, backoff_rate, cl, rq, plan, a, attempt) ==
    LET \* attempt r was retried, the later attempts gave `rest`
        Retried(r, rest) ==
            [out |-> rest.out,
             sent |-> r.sent \o rest.sent,
             got |-> r.got \o rest.got,
             classified |-> r.classified + rest.classified,
             sleeps |-> <<interval * Power(backoff_rate, attempt)>>
                            \o rest.sleeps,
             arr |-> rest.arr]
        Attempted(r) ==
            IF Catches(exceptions, r.out) /\ attempt # retries
            THEN Retried(r, retry(exceptions, interval, retries, backoff_rate,
                                  cl, [rq EXCEPT !.data = r.data], plan,
                                  r.arr, attempt + 1))
            ELSE [out |-> r.out, sent |-> r.sent, got |-> r.got,
                  classified |-> r.classified, sleeps |-> <<>>, arr |-> r.arr]
    IN  Attempted(ReqBody(cl, rq, AnswerAt(plan, attempt), a))

\* CONF.<option>: the value the deployment configures, which cl carries
\* beside the client's fields, or the option's default
Conf(cl, option, default) ==
    IF option \in DOMAIN cl THEN cl[option] ELSE default

\* a variant of req that retries every VolumeDriverException
req_RetryDriverErrors(cl, rq, plan, a) ==
    retry("VolumeDriverException",
          Conf(cl, "xtremio_array_busy_retry_count",
               xtremio_array_busy_retry_count),
          Conf(cl, "xtremio_array_busy_retry_interval",
               xtremio_array_busy_retry_interval),
          1, cl, rq, plan, a, 1)

\* XtremIOClient.req as callers see it: the body under the decorator
\* @utils.retry(exception.XtremIOArrayBusy,
\*              CONF.xtremio_array_busy_retry_count,
\*              CONF.xtremio_array_busy_retry_interval, 1).
\* The arguments are positional: the retry count is passed as retry's
\* `interval` and the retry interval as its `retries`.
req(cl, rq, plan, a) ==
    retry("XtremIOArrayBusy",
          Conf(cl, "xtremio_array_busy_retry_count",
               xtremio_array_busy_retry_count),
          Conf(cl, "xtremio_array_busy_retry_interval",
               xtremio_array_busy_retry_interval),
          1, cl, rq, plan, a, 1)

\* the arguments of a req call; XtremIOClient4.req defaults ver to 'v2'
Rq(cl, object_type, method, data, name, idx) ==
    [object_type |-> object_type, method |-> method, data |-> data,
     name |-> name, idx |-> idx,
     ver |-> IF cl.cls = "XtremIOClient4" THEN "v2" ELSE "v1"]

-----------------------------------------------------------------------------
(* Calls of req inside an operation.  An operation runs in a context        *)
(* ctx = [arr, script, calls]: the array, the environment's plans for the   *)
(* req calls still to come (a call beyond the script is answered by the     *)
(* array), and the req calls made so far, each [rq, plan, out, sent, got].  *)
(* The steps of an operation are written as local operators on the result   *)
(* of the req call before them.                                             *)

HonestPlan == [busy |-> 0, then |-> Honest]

Ctx(a, script) == [arr |-> a, script |-> script, calls |-> <<>>]

\* self.req(...) / self.client.req(...) in context ctx: [out, ctx]
Call(cl, ctx, rq) ==
    LET plan == IF ctx.script = <<>> THEN HonestPlan ELSE Head(ctx.script)
        Made(r) ==
            [out |-> r.out,
             ctx |-> [arr |-> r.arr,
                      script |-> IF ctx.script = <<>> THEN <<>>
                                 ELSE Tail(ctx.script),
                      calls |-> Append(ctx.calls,
                                   [rq |-> rq, plan |-> plan, out |-> r.out,
                                    sent |-> r.sent, got |-> r.got])]]
    IN  Made(req(cl, rq, plan, ctx.arr))

\* the result of an operation
Done(out, ctx) == [out |-> out, ctx |-> ctx]

ReturnNone == Return("none", EmptyDict)

\* res['links'][0]['href'].split('/')[-2:]
TypIdx(res) ==
    LET href == res["links"][1]["href"]
    IN  [typ |-> href[Len(href) - 1], idx |-> ToInt(href[Len(href)])]

-----------------------------------------------------------------------------
(* XtremIOClient3 (Variant A) and XtremIOClient4 (Variant B)                *)

\* the loop of XtremIOClient3.find_lunmap over the listing, from entry i
RECURSIVE find_lunmap3_loop(_, _, _, _, _, _)
find_lunmap3_loop(cl, ctx, lun_mappings, i, ig_name, vol_name) ==
    LET Matched(c, lm) ==
            IF lm["ig-name"] = ig_name /\ lm["vol-name"] = vol_name
            THEN Done(Return("json", lm), c.ctx)
            ELSE find_lunmap3_loop(cl, c.ctx, lun_mappings, i + 1,
                                   ig_name, vol_name)
        Fetched(c) ==
            IF Catches("NotFound", c.out)
            THEN find_lunmap3_loop(cl, c.ctx, lun_mappings, i + 1,
                                   ig_name, vol_name)
            ELSE IF c.out.kind = "raise" THEN Done(c.out, c.ctx)
            ELSE Matched(c, c.out.val["content"])
        Idx(href) == ToInt(href[Len(href)])
    IN  IF i > Len(lun_mappings) THEN Done(ReturnNone, ctx)
        ELSE Fetched(Call(cl, ctx, Rq(cl, "lun-maps", "GET", EmptyDict, "",
                                      Idx(lun_mappings[i]["href"]))))

\* a variant of find_lunmap3 that looks at the first listed lun-map only
find_lunmap3_FirstListed(cl, ctx, ig_name, vol_name) ==
    LET Listed(c) ==
            IF Catches("NotFound", c.out)
            THEN Done(Raise(Exc("VolumeDriverException", "can't find lun-map")),
                      c.ctx)
            ELSE IF c.out.kind = "raise" THEN Done(c.out, c.ctx)
            ELSE find_lunmap3_loop(cl, c.ctx,
                                   IF c.out.val["lun-maps"] = <<>> THEN <<>>
                                   ELSE <<c.out.val["lun-maps"][1]>>, 1,
                                   ig_name, vol_name)
    IN  Listed(Call(cl, ctx, Rq(cl, "lun-maps", "GET", EmptyDict, "", 0)))

find_lunmap3(cl, ctx, ig_name, vol_name) ==
    LET Listed(c) ==
            IF Catches("NotFound", c.out)
            THEN Done(Raise(Exc("VolumeDriverException", "can't find lun-map")),
                      c.ctx)
            ELSE IF c.out.kind = "raise" THEN Done(c.out, c.ctx)
            ELSE find_lunmap3_loop(cl, c.ctx, c.out.val["lun-maps"], 1,
                                   ig_name, vol_name)
    IN  Listed(Call(cl, ctx, Rq(cl, "lun-maps", "GET", EmptyDict, "", 0)))

find_lunmap4(cl, ctx, ig_name, vol_name) ==
    LET data == ("full" :> 1) @@
                ("filter" :> << <<"vol-name", "eq", vol_name>>,
                                <<"ig-name", "eq", ig_name>> >>)
        Listed(c) ==
            IF c.out.kind = "raise" THEN Done(c.out, c.ctx)
            ELSE IF "lun-maps" \notin DOMAIN c.out.val
                    \/ Len(c.out.val["lun-maps"]) = 0
            THEN Done(Raise(Exc("VolumeNotFound", vol_name)), c.ctx)
            ELSE Done(Return("json", c.out.val["lun-maps"][1]), c.ctx)
    IN  Listed(Call(cl, ctx, Rq(cl, "lun-maps", "GET", data, "", 0)))

find_lunmap(cl, ctx, ig_name, vol_name) ==
    IF cl.cls = "XtremIOClient4"
    THEN find_lunmap4(cl, ctx, ig_name, vol_name)
    ELSE find_lunmap3(cl, ctx, ig_name, vol_name)

\* the loop of XtremIOClient3.num_of_mapped_volumes, from entry i
RECURSIVE num_of_mapped_volumes3_loop(_, _, _, _, _, _)
num_of_mapped_volumes3_loop(cl, ctx, lun_mappings, i, initiator, cnt) ==
    LET Fetched(c) ==
            IF Catches("NotFound", c.out)
            THEN num_of_mapped_volumes3_loop(cl, c.ctx, lun_mappings, i + 1,
                                             initiator, cnt)
            ELSE IF c.out.kind = "raise" THEN Done(c.out, c.ctx)
            ELSE num_of_mapped_volumes3_loop(cl, c.ctx, lun_mappings, i + 1,
                    initiator,
                    IF c.out.val["content"]["ig-name"] = initiator
                    THEN cnt + 1 ELSE cnt)
        Idx(href) == ToInt(href[Len(href)])
    IN  IF i > Len(lun_mappings) THEN Done(Return("int", cnt), ctx)
        ELSE Fetched(Call(cl, ctx, Rq(cl, "lun-maps", "GET", EmptyDict, "",
                                      Idx(lun_mappings[i]["href"]))))

num_of_mapped_volumes3(cl, ctx, initiator) ==
    LET Listed(c) ==
            IF c.out.kind = "raise" THEN Done(c.out, c.ctx)
            ELSE num_of_mapped_volumes3_loop(cl, c.ctx, c.out.val["lun-maps"],
                                             1, initiator, 0)
    IN  Listed(Call(cl, ctx, Rq(cl, "lun-maps", "GET", EmptyDict, "", 0)))

\* the 'filter' string is one query parameter, as a list of one filter is
num_of_mapped_volumes4(cl, ctx, initiator) ==
    LET data == "filter" :> << <<"ig-name", "eq", initiator>> >>
        Listed(c) ==
            IF c.out.kind = "raise" THEN Done(c.out, c.ctx)
            ELSE Done(Return("int", Len(c.out.val["lun-maps"])), c.ctx)
    IN  Listed(Call(cl, ctx, Rq(cl, "lun-maps", "GET", data, "", 0)))

num_of_mapped_volumes(cl, ctx, initiator) ==
    IF cl.cls = "XtremIOClient4"
    THEN num_of_mapped_volumes4(cl, ctx, initiator)
    ELSE num_of_mapped_volumes3(cl, ctx, initiator)

\* the loop of XtremIOClient3.get_iscsi_portals over the listed names, from
\* entry i; cached is self._portals, which every fetched portal is appended
\* to at once.  The result carries self._portals as the call leaves it.
RECURSIVE get_iscsi_portals3_loop(_, _, _, _, _)
get_iscsi_portals3_loop(cl, ctx, iscsi_portals, i, cached) ==
    LET Fetched(c) ==
            IF Catches("NotFound", c.out)
            THEN [out |-> Raise(Exc("VolumeBackendAPIException",
                                    "iscsi portal, %s, not found")),
                  ctx |-> c.ctx, portals |-> cached]
            ELSE IF c.out.kind = "raise"
            THEN [out |-> c.out, ctx |-> c.ctx, portals |-> cached]
            ELSE get_iscsi_portals3_loop(cl, c.ctx, iscsi_portals, i + 1,
                                         Append(cached, c.out.val["content"]))
    IN  IF i > Len(iscsi_portals)
        THEN [out |-> Return("json", cached), ctx |-> ctx, portals |-> cached]
        ELSE Fetched(Call(cl, ctx, Rq(cl, "iscsi-portals", "GET", EmptyDict,
                                      iscsi_portals[i], 0)))

get_iscsi_portals3(cl, ctx, cached) ==
    LET Listed(c) ==
            IF c.out.kind = "raise"
            THEN [out |-> c.out, ctx |-> c.ctx, portals |-> cached]
            ELSE get_iscsi_portals3_loop(cl, c.ctx,
                     [k \in 1..Len(c.out.val["iscsi-portals"]) |->
                         c.out.val["iscsi-portals"][k]["name"]],
                     1, cached)
    IN  IF cached # <<>>
        THEN [out |-> Return("json", cached), ctx |-> ctx, portals |-> cached]
        ELSE Listed(Call(cl, ctx, Rq(cl, "iscsi-portals", "GET", EmptyDict,
                                     "", 0)))

\* XtremIOClient4 keeps no list of its own
get_iscsi_portals4(cl, ctx, cached) ==
    LET Listed(c) ==
            IF c.out.kind = "raise"
            THEN [out |-> c.out, ctx |-> c.ctx, portals |-> cached]
            ELSE [out |-> Return("json", c.out.val["iscsi-portals"]),
                  ctx |-> c.ctx, portals |-> cached]
    IN  Listed(Call(cl, ctx, Rq(cl, "iscsi-portals", "GET", "full" :> 1,
                                "", 0)))

get_iscsi_portals(cl, ctx, cached) ==
    IF cl.cls = "XtremIOClient4"
    THEN get_iscsi_portals4(cl, ctx, cached)
    ELSE get_iscsi_portals3(cl, ctx, cached)

\* XtremIOClient3.get_initiator: the initiator is read by name
get_initiator3(cl, ctx, port_address) ==
    LET Got(c) ==
            IF Catches("NotFound", c.out) THEN Done(ReturnNone, c.ctx)
            ELSE IF c.out.kind = "raise" THEN Done(c.out, c.ctx)
            ELSE Done(Return("json", c.out.val["content"]), c.ctx)
    IN  Got(Call(cl, ctx, Rq(cl, "initiators", "GET", EmptyDict,
                             port_address, 0)))

\* XtremIOClient4.get_initiator: the initiators of that port address are
\* listed in full; the 'filter' string is a list of one filter
get_initiator4(cl, ctx, port_address) ==
    LET data == ("filter" :> << <<"port-address", "eq", port_address>> >>)
                    @@ ("full" :> 1)
        Got(c) ==
            IF c.out.kind = "raise" THEN Done(c.out, c.ctx)
            ELSE IF Len(c.out.val["initiators"]) = 1
            THEN Done(Return("json", c.out.val["initiators"][1]), c.ctx)
            ELSE Done(ReturnNone, c.ctx)
    IN  Got(Call(cl, ctx, Rq(cl, "initiators", "GET", data, "", 0)))

get_initiator(cl, ctx, port_address) ==
    IF cl.cls = "XtremIOClient4"
    THEN get_initiator4(cl, ctx, port_address)
    ELSE get_initiator3(cl, ctx, port_address)

\* XtremIOClient.get_cluster; the result carries self.cluster_id
get_cluster3(cl, ctx) ==
    LET Got(c) ==
            IF c.out.kind = "raise"
            THEN [out |-> c.out, ctx |-> c.ctx, client |-> cl]
            ELSE [out |-> Return("json", c.out.val["content"]),
                  ctx |-> c.ctx, client |-> cl]
    IN  Got(Call(cl, ctx, Rq(cl, "clusters", "GET", EmptyDict, "", 1)))

\* XtremIOClient4.get_cluster: without a cluster id the first listed cluster
\* becomes self.cluster_id
get_cluster4(cl, ctx) ==
    LET Got(k, c) ==
            IF c.out.kind = "raise"
            THEN [out |-> c.out, ctx |-> c.ctx, client |-> k]
            ELSE [out |-> Return("json", c.out.val["content"]),
                  ctx |-> c.ctx, client |-> k]
        Named(k, c) ==
            Got(k, Call(k, c, Rq(k, "clusters", "GET", EmptyDict,
                                 k.cluster_id, 0)))
        Listed(c) ==
            IF c.out.kind = "raise"
            THEN [out |-> c.out, ctx |-> c.ctx, client |-> cl]
            ELSE IF Len(c.out.val["clusters"]) = 0
            THEN [out |-> Raise(Exc("IndexError", "list index out of range")),
                  ctx |-> c.ctx, client |-> cl]
            ELSE Named([cl EXCEPT
                           !.cluster_id = c.out.val["clusters"][1]["name"]],
                       c.ctx)
    IN  IF cl.cluster_id = ""
        THEN Listed(Call(cl, ctx, Rq(cl, "clusters", "GET", EmptyDict, "", 0)))
        ELSE Named(cl, ctx)

get_cluster(cl, ctx) ==
    IF cl.cls = "XtremIOClient4" THEN get_cluster4(cl, ctx)
    ELSE get_cluster3(cl, ctx)

create_snapshot3(cl, ctx, src, dest, ro) ==
    LET data == ("snap-vol-name" :> dest) @@ ("ancestor-vol-id" :> src)
        Posted(c) ==
            IF c.out.kind = "raise" THEN Done(c.out, c.ctx)
            ELSE Done(ReturnNone, c.ctx)
    IN  Posted(Call(cl, ctx, Rq(cl, "snapshots", "POST", data, "", 0)))

create_snapshot4(cl, ctx, src, dest, ro) ==
    LET data == ("snapshot-set-name" :> dest) @@ ("snap-suffix" :> dest)
                  @@ ("volume-list" :> <<src>>)
                  @@ ("snapshot-type" :> IF ro THEN "readonly" ELSE "regular")
        \* reverting; an error of the DELETE replaces the rename error c2.out
        Reverted(c2, c3) ==
            IF c3.out.kind = "raise" THEN Done(c3.out, c3.ctx)
            ELSE Done(c2.out, c3.ctx)
        Renamed(ti, c2) ==
            IF Catches("VolumeBackendAPIException", c2.out)
            THEN Reverted(c2, Call(cl, c2.ctx,
                                   Rq(cl, ti.typ, "DELETE", EmptyDict, "",
                                      ti.idx)))
            ELSE IF c2.out.kind = "raise" THEN Done(c2.out, c2.ctx)
            ELSE Done(ReturnNone, c2.ctx)
        Rename(ti, c1) ==
            Renamed(ti, Call(cl, c1.ctx,
                             Rq(cl, ti.typ, "PUT", "name" :> dest, "", ti.idx)))
        Posted(c1) ==
            IF c1.out.kind = "raise" THEN Done(c1.out, c1.ctx)
            ELSE Rename(TypIdx(c1.out.val), c1)
    IN  Posted(Call(cl, ctx, [Rq(cl, "snapshots", "POST", data, "", 0)
                                 EXCEPT !.ver = "v2"]))

client_create_snapshot(cl, ctx, src, dest, ro) ==
    IF cl.cls = "XtremIOClient4"
    THEN create_snapshot4(cl, ctx, src, dest, ro)
    ELSE create_snapshot3(cl, ctx, src, dest, ro)

\* add_vol_to_cg: a no-op on XtremIOClient (Client3), a POST on Client4
add_vol_to_cg(cl, ctx, vol_id, cg_id) ==
    LET Posted(c) ==
            IF c.out.kind = "raise" THEN Done(c.out, c.ctx)
            ELSE Done(ReturnNone, c.ctx)
    IN  IF cl.cls = "XtremIOClient4"
        THEN Posted(Call(cl, ctx,
                         [Rq(cl, "consistency-group-volumes", "POST",
                             ("vol-id" :> vol_id) @@ ("cg-id" :> cg_id), "", 0)
                            EXCEPT !.ver = "v2"]))
        ELSE Done(ReturnNone, ctx)

-----------------------------------------------------------------------------
(* XtremIOVolumeDriver                                                      *)

\* str(volume['size']) + 'g' for the sizes of the model
SizeStr(size) == IF size = 1 THEN "1g" ELSE "2g"

create_volume(cl, ctx, volume) ==
    LET data == ("vol-name" :> volume.id) @@ ("vol-size" :> SizeStr(volume.size))
        Posted(c) ==
            IF c.out.kind = "raise" THEN Done(c.out, c.ctx)
            ELSE IF volume.consistencygroup_id # ""
            THEN add_vol_to_cg(cl, c.ctx, volume.id, volume.consistencygroup_id)
            ELSE Done(ReturnNone, c.ctx)
    IN  Posted(Call(cl, ctx, Rq(cl, "volumes", "POST", data, "", 0)))

\* a variant of delete_volume without the except clause
delete_volume_NoCatch(cl, ctx, name_id) ==
    LET Deleted(c) ==
            IF c.out.kind = "raise" THEN Done(c.out, c.ctx)
            ELSE Done(ReturnNone, c.ctx)
    IN  Deleted(Call(cl, ctx,
                     Rq(cl, "volumes", "DELETE", EmptyDict, name_id, 0)))

\* delete_volume(volume), name_id = volume.name_id; delete_snapshot(snapshot)
\* is the same code on snapshot.id
delete_volume(cl, ctx, name_id) ==
    LET Deleted(c) ==
            IF Catches("NotFound", c.out) THEN Done(ReturnNone, c.ctx)
            ELSE IF c.out.kind = "raise" THEN Done(c.out, c.ctx)
            ELSE Done(ReturnNone, c.ctx)
    IN  Deleted(Call(cl, ctx,
                     Rq(cl, "volumes", "DELETE", EmptyDict, name_id, 0)))

delete_snapshot(cl, ctx, id) == delete_volume(cl, ctx, id)

\* XtremIOVolumeDriver.create_snapshot(snapshot)
create_snapshot(cl, ctx, snapshot) ==
    client_create_snapshot(cl, ctx, snapshot.volume_id, snapshot.id, TRUE)

\* XtremIOVolumeDriver.update_migrated_volume(ctxt, volume, new_volume,
\* original_volume_status): the array's volume named new_volume['id'] is
\* renamed to volume['id']; "" stands for None
update_migrated_volume(cl, ctx, volume, new_volume) ==
    LET current_name == new_volume.id
        original_name == volume.id
        Model(name_id, provider_location) ==
            Return("json", ("_name_id" :> name_id)
                               @@ ("provider_location" :> provider_location))
        Renamed(c) ==
            IF Catches("VolumeBackendAPIException", c.out)
            THEN Done(Model(IF new_volume._name_id # ""
                            THEN new_volume._name_id ELSE new_volume.id,
                            new_volume.provider_location), c.ctx)
            ELSE IF c.out.kind = "raise" THEN Done(c.out, c.ctx)
            ELSE Done(Model("", ""), c.ctx)
    IN  Renamed(Call(cl, ctx, Rq(cl, "volumes", "PUT",
                                 "name" :> original_name, current_name, 0)))

\* XtremIOVolumeDriver.manage_existing(volume, existing_ref, is_snapshot):
\* the array's volume named existing_ref['source-name'] is renamed to
\* volume['id'].  The reason of the NotFound case is
\* ('Specified logical %s does not exist.' % 'snapshot') if is_snapshot
\* else 'volume'
manage_existing(cl, ctx, volume, existing_ref, is_snapshot) ==
    LET lv_name == existing_ref["source-name"]
        Invalid(reason) ==
            Raise(Exc("ManageExistingInvalidReference", reason))
        Renamed(c) ==
            IF c.out.kind = "raise" THEN Done(c.out, c.ctx)
            ELSE Done(ReturnNone, c.ctx)
        NotASnapshot(vol_obj) ==
            /\ is_snapshot
            /\ \/ vol_obj["ancestor-vol-id"] = <<>>
               \/ Sub(vol_obj["ancestor-vol-id"], XTREMIO_OID_NAME)
                     # volume.volume_id
        Located(c) ==
            IF Catches("NotFound", c.out)
            THEN Done(Invalid(IF is_snapshot
                              THEN "Specified logical snapshot does not exist."
                              ELSE "volume"), c.ctx)
            ELSE IF c.out.kind = "raise" THEN Done(c.out, c.ctx)
            ELSE IF NotASnapshot(c.out.val["content"])
            THEN Done(Invalid("Not a snapshot of vol"), c.ctx)
            ELSE Renamed(Call(cl, c.ctx,
                              Rq(cl, "volumes", "PUT", "vol-name" :> volume.id,
                                 "", c.out.val["content"]["index"])))
    IN  Located(Call(cl, ctx, Rq(cl, "volumes", "GET", EmptyDict, lv_name, 0)))

\* XtremIOVolumeDriver.manage_existing_snapshot(snapshot, existing_ref)
manage_existing_snapshot(cl, ctx, snapshot, existing_ref) ==
    manage_existing(cl, ctx, snapshot, existing_ref, TRUE)

\* XtremIOVolumeDriver.unmanage(volume, is_snapshot): the array's volume named
\* volume['id'] is renamed to volume['name'] + '-unmanged'
unmanage(cl, ctx, volume, is_snapshot) ==
    LET Renamed(c) ==
            IF Catches("NotFound", c.out)
            THEN Done(Raise(Exc("VolumeNotFound", volume.id)), c.ctx)
            ELSE IF c.out.kind = "raise" THEN Done(c.out, c.ctx)
            ELSE Done(ReturnNone, c.ctx)
    IN  Renamed(Call(cl, ctx,
                     Rq(cl, "volumes", "PUT",
                        "vol-name" :> (volume.name \o "-unmanged"),
                        volume.id, 0)))

\* XtremIOVolumeDriver.unmanage_snapshot(snapshot)
unmanage_snapshot(cl, ctx, snapshot) == unmanage(cl, ctx, snapshot, TRUE)

\* `self.client is XtremIOClient4`: self.client is an instance (made by
\* XtremIOClient3(...) or XtremIOClient4(...)), and an instance is never
\* the class object itself
ClientIsClass(cl, cls) == FALSE

\* what the request carries as name when it is given the cgsnapshot object
\* instead of a snapshot set's name: no name of a snapshot set
CgSnapshotObject == "cgsnapshot-object"

\* the value of the last pair of `pairs` with key `key` (a dict built from
\* the pairs in order), as [found, val]
RECURSIVE Lookup(_, _, _)
Lookup(pairs, key, k) ==
    IF k = 0 THEN [found |-> FALSE, val |-> ""]
    ELSE IF pairs[k][1] = key THEN [found |-> TRUE, val |-> pairs[k][2]]
    ELSE Lookup(pairs, key, k - 1)

\* the (ancestor name, name) pairs of the listed volumes whose index is in
\* volume_ids, from the k-th on; a listed snapshot-set member without an
\* ancestor raises IndexError
RECURSIVE AncestorPairs(_, _, _)
AncestorPairs(volumes, volume_ids, k) ==
    IF k > Len(volumes) THEN [ok |-> TRUE, pairs |-> <<>>]
    ELSE LET v == volumes[k]
             rest == AncestorPairs(volumes, volume_ids, k + 1)
         IN  IF ~\E j \in 1..Len(volume_ids) : volume_ids[j] = v["index"]
             THEN rest
             ELSE IF Len(v["ancestor-vol-id"]) < 2 \/ ~rest.ok
             THEN [ok |-> FALSE, pairs |-> <<>>]
             ELSE [ok |-> TRUE,
                   pairs |-> <<<<v["ancestor-vol-id"][2], v["name"]>>>>
                                \o rest.pairs]

\* XtremIOVolumeDriver._get_snapset_ancestors(snapset_name): Return("dict",
\* pairs)
get_snapset_ancestors(cl, ctx, snapset_name) ==
    LET Built(b, c) ==
            IF b.ok THEN Done(Return("dict", b.pairs), c.ctx)
            ELSE Done(Raise(Exc("IndexError", "")), c.ctx)
        Listed(ids, c) ==
            IF c.out.kind = "raise" THEN Done(c.out, c.ctx)
            ELSE Built(AncestorPairs(c.out.val["volumes"], ids, 1), c)
        List(vl, c) ==
            Listed([k \in 1..Len(vl) |-> vl[k][3]],
                   Call(cl, c.ctx,
                        Rq(cl, "volumes", "GET",
                           ("full" :> 1) @@ ("props" :> "ancestor-vol-id"),
                           "", 0)))
        Got(c) ==
            IF c.out.kind = "raise" THEN Done(c.out, c.ctx)
            ELSE IF "vol-list" \notin DOMAIN c.out.val["content"]
            THEN Done(Raise(Exc("KeyError", "")), c.ctx)
            ELSE List(c.out.val["content"]["vol-list"], c)
    IN  Got(Call(cl, ctx,
                 Rq(cl, "snapshot-sets", "GET", EmptyDict, snapset_name, 0)))

\* XtremIOVolumeDriver.create_volume_from_snapshot(volume, snapshot)
create_volume_from_snapshot(cl, ctx, volume, snapshot) ==
    LET Copied(c) ==
            IF c.out.kind = "raise" THEN c
            ELSE IF volume.consistencygroup_id # ""
                      /\ ClientIsClass(cl, "XtremIOClient4")
            THEN add_vol_to_cg(cl, c.ctx, volume.id,
                               snapshot.consistencygroup_id)
            ELSE Done(ReturnNone, c.ctx)
        \* n = [out, ctx]: the name to copy from, snap_name or
        \* snap_by_anc[snapshot.volume_id]
        Named(n) ==
            IF n.out.kind = "raise" THEN n
            ELSE Copied(client_create_snapshot(cl, n.ctx, n.out.val,
                                                volume.id, FALSE))
        Picked(l, a) ==
            IF ~l.found THEN Done(Raise(Exc("KeyError", "")), a.ctx)
            ELSE Done(Return("str", l.val), a.ctx)
        Ancestors(a) ==
            IF a.out.kind = "raise" THEN a
            ELSE Picked(Lookup(a.out.val, snapshot.volume_id,
                               Len(a.out.val)), a)
    IN  Named(IF snapshot.cgsnapshot_id # ""
              THEN Ancestors(get_snapset_ancestors(cl, ctx, CgSnapshotObject))
              ELSE Done(Return("str", snapshot.id), ctx))

\* XtremIOVolumeDriver.create_cloned_volume(volume, src_vref); cache is
\* whether the database holds an image-volume cache entry for the source,
\* limit the option xtremio_volumes_per_glance_cache
create_cloned_volume(cl, ctx, volume, src_vref, cache, limit) ==
    LET Copied(c) ==
            IF Catches("XtremIOSnapshotsLimitExceeded", c.out)
            THEN Done(Raise(Exc("CinderException", c.out.exc.msg)), c.ctx)
            ELSE IF c.out.kind = "raise" THEN c
            ELSE IF volume.consistencygroup_id # ""
                      /\ ClientIsClass(cl, "XtremIOClient4")
            THEN add_vol_to_cg(cl, c.ctx, volume.id,
                               volume.consistencygroup_id)
            ELSE Done(ReturnNone, c.ctx)
        Got(g) ==
            IF g.out.kind = "raise" THEN Done(g.out, g.ctx)
            ELSE IF cache /\ limit # 0 /\ limit > 0
                      /\ limit <= g.out.val["content"]["num-of-dest-snaps"]
            THEN Done(Raise(Exc("CinderException",
                                <<"Exceeded", "the", "configured", "limit">>)),
                      g.ctx)
            ELSE Copied(client_create_snapshot(cl, g.ctx, src_vref.id,
                                                volume.id, FALSE))
    IN  Got(Call(cl, ctx,
                 Rq(cl, "volumes", "GET", EmptyDict, src_vref.id, 0)))

\* self.client.req(typ, idx=int(idx))['content']
obj_from_result(cl, ctx, res) ==
    LET Fetched(c) ==
            IF c.out.kind = "raise" THEN Done(c.out, c.ctx)
            ELSE Done(Return("json", c.out.val["content"]), c.ctx)
        Fetch(ti) ==
            Fetched(Call(cl, ctx, Rq(cl, ti.typ, "GET", EmptyDict, "", ti.idx)))
    IN  Fetch(TypIdx(res))

\* a variant of UniqLuns that leaves the 0 out
UniqLuns_NoZero(luns) == {luns[k] : k \in 1..Len(luns)}

\* set(luns + [0])
UniqLuns(luns) == {luns[k] : k \in 1..Len(luns)} \cup {0}

\* min(set(range(len(uniq_luns) + 1)) - uniq_luns)
MinFree(uniq_luns) ==
    LET free == (0..Cardinality(uniq_luns)) \ uniq_luns
    IN  CHOOSE x \in free : \A y \in free : x <= y

\* s.replace('-', '')
NoDashes(s) ==
    CASE s = "g-1" -> "g1"
      [] s = "g-2" -> "g2"
      [] s = "n-1" -> "n1"
      [] OTHER -> s

\* '%(cg)s%(snap)s' % {'cg': cg, 'snap': snap}
CgSnap(cg, snap) == cg \o snap

\* XtremIOVolumeDriver._get_cgsnap_name(cgsnapshot)
get_cgsnap_name(cgsnapshot) ==
    CgSnap(NoDashes(cgsnapshot.consistencygroup_id), NoDashes(cgsnapshot.id))

\* delete_consistencygroup: for volume in volumes, from the i-th volume on
RECURSIVE delete_consistencygroup_loop(_, _, _, _, _)
delete_consistencygroup_loop(cl, ctx, group, volumes, i) ==
    LET Deleted(d) ==
            IF d.out.kind = "raise" THEN d
            ELSE delete_consistencygroup_loop(cl, d.ctx, group, volumes, i + 1)
    IN  IF i > Len(volumes)
        THEN Done(Return("tuple",
                         <<"status" :> group.status,
                           [k \in 1..Len(volumes) |->
                               [name_id |-> volumes[k], status |-> "deleted"]]>>),
                  ctx)
        ELSE Deleted(delete_volume(cl, ctx, volumes[i]))

\* XtremIOVolumeDriver.delete_consistencygroup(context, group, volumes);
\* volumes are the name_ids of the volumes the database holds for the group
delete_consistencygroup(cl, ctx, group, volumes) ==
    LET Deleted(c) ==
            IF c.out.kind = "raise" THEN Done(c.out, c.ctx)
            ELSE delete_consistencygroup_loop(cl, c.ctx, group, volumes, 1)
    IN  Deleted(Call(cl, ctx,
                     [Rq(cl, "consistency-groups", "DELETE", EmptyDict,
                         group.id, 0) EXCEPT !.ver = "v2"]))

\* XtremIOVolumeDriver.delete_cgsnapshot(context, cgsnapshot, snapshots)
delete_cgsnapshot(cl, ctx, cgsnapshot) ==
    LET Deleted(c) ==
            IF c.out.kind = "raise" THEN Done(c.out, c.ctx)
            ELSE Done(Return("tuple", <<EmptyDict, EmptyDict>>), c.ctx)
    IN  Deleted(Call(cl, ctx,
                     [Rq(cl, "snapshot-sets", "DELETE", EmptyDict,
                         get_cgsnap_name(cgsnapshot), 0) EXCEPT !.ver = "v2"]))

\* XtremIOVolumeDriver.create_consistencygroup(context, group)
create_consistencygroup(cl, ctx, group) ==
    LET Posted(c) ==
            IF c.out.kind = "raise" THEN Done(c.out, c.ctx)
            ELSE Done(Return("json", "status" :> "available"), c.ctx)
    IN  Posted(Call(cl, ctx,
                    [Rq(cl, "consistency-groups", "POST",
                        "consistency-group-name" :> group.id, "", 0)
                       EXCEPT !.ver = "v2"]))

\* update_consistencygroup: 'for vol in add_volumes' (method POST) and 'for
\* vol in remove_volumes' (method DELETE, with name=group['id']), from the
\* i-th volume on
RECURSIVE update_consistencygroup_loop(_, _, _, _, _, _)
update_consistencygroup_loop(cl, ctx, group, method, vols, i) ==
    LET data == ("vol-id" :> vols[i].id) @@ ("cg-id" :> group.id)
        Answered(c) ==
            IF c.out.kind = "raise" THEN Done(c.out, c.ctx)
            ELSE update_consistencygroup_loop(cl, c.ctx, group, method, vols,
                                              i + 1)
    IN  IF i > Len(vols) THEN Done(ReturnNone, ctx)
        ELSE Answered(Call(cl, ctx,
                           [Rq(cl, "consistency-group-volumes", method, data,
                               IF method = "DELETE" THEN group.id ELSE "", 0)
                              EXCEPT !.ver = "v2"]))

\* XtremIOVolumeDriver.update_consistencygroup(context, group, add_volumes,
\* remove_volumes); <<>> stands for None and for []
update_consistencygroup(cl, ctx, group, add_volumes, remove_volumes) ==
    LET Removed(o) ==
            IF o.out.kind = "raise" THEN o
            ELSE Done(Return("tuple", <<EmptyDict, EmptyDict, EmptyDict>>),
                      o.ctx)
        Added(o) ==
            IF o.out.kind = "raise" THEN o
            ELSE Removed(update_consistencygroup_loop(cl, o.ctx, group,
                                                      "DELETE",
                                                      remove_volumes, 1))
    IN  Added(update_consistencygroup_loop(cl, ctx, group, "POST",
                                           add_volumes, 1))

\* XtremIOVolumeDriver.create_cgsnapshot(context, cgsnapshot, snapshots)
create_cgsnapshot(cl, ctx, cgsnapshot) ==
    LET data == ("consistency-group-id" :> cgsnapshot.consistencygroup_id)
                  @@ ("snapshot-set-name" :> get_cgsnap_name(cgsnapshot))
        Posted(c) ==
            IF c.out.kind = "raise" THEN Done(c.out, c.ctx)
            ELSE Done(Return("tuple", <<EmptyDict, EmptyDict>>), c.ctx)
    IN  Posted(Call(cl, ctx,
                    [Rq(cl, "snapshots", "POST", data, "", 0)
                       EXCEPT !.ver = "v2"]))

\* None where an object is expected
NoObject == [id |-> ""]

\* the shorter of two lists: zip stops there
ZipLen(a, b) == IF Len(a) < Len(b) THEN Len(a) ELSE Len(b)

\* create_consistencygroup_from_src: 'for volume, snapshot in zip(volumes,
\* snapshots)', from the k-th pair on; snap_by_anc are the pairs
\* _get_snapset_ancestors returned
RECURSIVE from_cgsnapshot_loop(_, _, _, _, _, _)
from_cgsnapshot_loop(cl, ctx, volumes, snapshots, snap_by_anc, k) ==
    LET Made(o) ==
            IF o.out.kind = "raise" THEN o
            ELSE from_cgsnapshot_loop(cl, o.ctx, volumes, snapshots,
                                      snap_by_anc, k + 1)
        Picked(real_snap) ==
            IF ~real_snap.found THEN Done(Raise(Exc("KeyError", "")), ctx)
            ELSE Made(create_volume_from_snapshot(
                          cl, ctx, volumes[k],
                          [id |-> real_snap.val, cgsnapshot_id |-> ""]))
    IN  IF k > ZipLen(volumes, snapshots) THEN Done(ReturnNone, ctx)
        ELSE Picked(Lookup(snap_by_anc, snapshots[k].volume_id,
                           Len(snap_by_anc)))

\* create_consistencygroup_from_src: 'for volume, src_vol in zip(volumes,
\* source_vols)', from the k-th pair on
RECURSIVE from_source_cg_loop(_, _, _, _, _, _)
from_source_cg_loop(cl, ctx, volumes, source_vols, snap_by_anc, k) ==
    LET Renamed(c) ==
            IF c.out.kind = "raise" THEN Done(c.out, c.ctx)
            ELSE from_source_cg_loop(cl, c.ctx, volumes, source_vols,
                                     snap_by_anc, k + 1)
        Picked(snap_vol_name) ==
            IF ~snap_vol_name.found THEN Done(Raise(Exc("KeyError", "")), ctx)
            ELSE Renamed(Call(cl, ctx,
                              Rq(cl, "volumes", "PUT",
                                 "name" :> volumes[k].id,
                                 snap_vol_name.val, 0)))
    IN  IF k > ZipLen(volumes, source_vols) THEN Done(ReturnNone, ctx)
        ELSE Picked(Lookup(snap_by_anc, source_vols[k].id, Len(snap_by_anc)))

\* create_consistencygroup_from_src, 'if cgsnapshot:'
from_cgsnapshot(cl, ctx, volumes, cgsnapshot, snapshots) ==
    LET Ancestors(a) ==
            IF a.out.kind = "raise" THEN a
            ELSE from_cgsnapshot_loop(cl, a.ctx, volumes, snapshots,
                                      a.out.val, 1)
    IN  Ancestors(get_snapset_ancestors(cl, ctx, get_cgsnap_name(cgsnapshot)))

\* create_consistencygroup_from_src, 'elif source_cg:'
from_source_cg(cl, ctx, group, volumes, source_cg, source_vols) ==
    LET data == ("consistency-group-id" :> source_cg.id)
                  @@ ("snapshot-set-name" :> group.id)
        Ancestors(a) ==
            IF a.out.kind = "raise" THEN a
            ELSE from_source_cg_loop(cl, a.ctx, volumes, source_vols,
                                     a.out.val, 1)
        Posted(c) ==
            IF c.out.kind = "raise" THEN Done(c.out, c.ctx)
            ELSE Ancestors(get_snapset_ancestors(cl, c.ctx, group.id))
    IN  Posted(Call(cl, ctx,
                    [Rq(cl, "snapshots", "POST", data, "", 0)
                       EXCEPT !.ver = "v2"]))

\* XtremIOVolumeDriver.create_consistencygroup_from_src(context, group,
\* volumes, cgsnapshot, snapshots, source_cg, source_vols); NoObject stands
\* for a cgsnapshot or source_cg of None, <<>> for a list of None
create_consistencygroup_from_src(cl, ctx, group, volumes, cgsnapshot, snapshots, source_cg, source_vols) ==
    LET supported ==
            \/ cgsnapshot # NoObject /\ snapshots # <<>>
                  /\ source_cg = NoObject
            \/ source_cg # NoObject /\ source_vols # <<>>
                  /\ cgsnapshot = NoObject
        create_data ==
            ("consistency-group-name" :> group.id)
                @@ ("vol-list" :> [k \in 1..Len(volumes) |-> volumes[k].id])
        Posted(c) ==
            IF c.out.kind = "raise" THEN Done(c.out, c.ctx)
            ELSE Done(Return("tuple", <<EmptyDict, EmptyDict>>), c.ctx)
        Sourced(o) ==
            IF o.out.kind = "raise" THEN o
            ELSE Posted(Call(cl, o.ctx,
                             [Rq(cl, "consistency-groups", "POST",
                                 create_data, "", 0) EXCEPT !.ver = "v2"]))
    IN  IF ~supported
        THEN Done(Raise(Exc("InvalidInput",
                            "create_consistencygroup_from_src only supports a cgsnapshot source or a consistency group source. Multiple sources cannot be used.")),
                  ctx)
        ELSE Sourced(IF cgsnapshot # NoObject
                     THEN from_cgsnapshot(cl, ctx, volumes, cgsnapshot,
                                          snapshots)
                     ELSE from_source_cg(cl, ctx, group, volumes, source_cg,
                                         source_vols))

\* XtremIOFCDriver._get_free_lun(igs), from the i-th initiator group on, with
\* the LUN numbers collected so far
RECURSIVE get_free_lun_loop(_, _, _, _, _)
get_free_lun_loop(cl, ctx, igs, i, luns) ==
    LET data(ig) == ("full" :> 1) @@ ("prop" :> "lun")
                       @@ ("filter" :> << <<"ig-name", "eq", ig>> >>)
        Lun(lms) == [k \in 1..Len(lms) |-> lms[k]["lun"]]
        Listed(c) ==
            IF c.out.kind = "raise" THEN Done(c.out, c.ctx)
            ELSE get_free_lun_loop(cl, c.ctx, igs, i + 1,
                                   luns \o Lun(c.out.val["lun-maps"]))
    IN  IF i > Len(igs)
        THEN Done(Return("int", MinFree(UniqLuns(luns))), ctx)
        ELSE Listed(Call(cl, ctx,
                         Rq(cl, "lun-maps", "GET", data(igs[i]), "", 0)))

get_free_lun(cl, ctx, igs) == get_free_lun_loop(cl, ctx, igs, 1, <<>>)

MIN_XMS_VERSION == <<3, 0, 0>>

\* s.split(sep) on a token sequence
RECURSIVE Split(_, _)
Split(s, sep) ==
    IF \A i \in 1..Len(s) : s[i] # sep THEN <<s>>
    ELSE LET i == CHOOSE j \in 1..Len(s) :
                      s[j] = sep /\ \A k \in 1..(j - 1) : s[k] # sep
         IN  <<SubSeq(s, 1, i - 1)>> \o Split(SubSeq(s, i + 1, Len(s)), sep)

\* [int(n) for n in version_text.split('-')[0].split('.')]; the numbers of
\* the model have one digit
ParseVersion(version_text) ==
    LET parts == Split(Split(version_text, "-")[1], ".")
    IN  [k \in 1..Len(parts) |-> ToInt(parts[k][1])]

\* a < b on Python lists of integers
RECURSIVE ListLess(_, _)
ListLess(a, b) ==
    IF b = <<>> THEN FALSE
    ELSE IF a = <<>> THEN TRUE
    ELSE IF Head(a) # Head(b) THEN Head(a) < Head(b)
    ELSE ListLess(Tail(a), Tail(b))

\* a variant of check_for_setup_error's last test: ver[0] >= 3
SwitchesClient_From3(ver) == ver[1] >= 3

\* ver[0] >= 4
SwitchesClient(ver) == ver[1] >= 4

\* XtremIOVolumeDriver.check_for_setup_error: [out, ctx, client], client
\* being self.client afterwards; cluster_id is the driver's self.cluster_id
\* (the configured cluster name), which the new client is built with
check_for_setup_error(cl, ctx, cluster_id) ==
    LET Ended(out, c) == [out |-> out, ctx |-> c, client |-> cl]
        NoClusters ==
            Raise(Exc("VolumeBackendAPIException",
                      "XtremIO not initialized correctly, no clusters found"))
        Checked(c, ver) ==
            IF ListLess(ver, MIN_XMS_VERSION)
            THEN Ended(Raise(Exc("VolumeBackendAPIException",
                                 "Invalid XtremIO version")), c)
            ELSE IF SwitchesClient(ver)
            THEN [out |-> ReturnNone, ctx |-> c,
                  client |-> [cl EXCEPT !.cls = "XtremIOClient4",
                                        !.cluster_id = cluster_id]]
            ELSE Ended(ReturnNone, c)
        Fetched(c) ==
            IF Catches("NotFound", c.out) THEN Ended(NoClusters, c.ctx)
            ELSE IF c.out.kind = "raise" THEN Ended(c.out, c.ctx)
            ELSE Checked(c.ctx,
                         ParseVersion(c.out.val["content"]["sys-sw-version"]))
        Listed(c) ==
            IF Catches("NotFound", c.out) THEN Ended(NoClusters, c.ctx)
            ELSE IF c.out.kind = "raise" THEN Ended(c.out, c.ctx)
            ELSE IF Len(c.out.val["clusters"]) = 0
            THEN Ended(Raise(Exc("IndexError", "list index out of range")),
                       c.ctx)
            ELSE Fetched(Call(cl, c.ctx,
                              Rq(cl, "clusters", "GET", EmptyDict,
                                 c.out.val["clusters"][1]["name"], 0)))
    IN  Listed(Call(cl, ctx, Rq(cl, "clusters", "GET", EmptyDict, "", 0)))

\* lun_num = 0 stands for None (no 'lun' in the request)
create_lun_map(cl, ctx, volume_id, ig, lun_num) ==
    LET data0 == ("ig-id" :> ig) @@ ("vol-id" :> volume_id)
        data == IF lun_num # 0 THEN ("lun" :> lun_num) @@ data0 ELSE data0
        \* o is the result of the try block
        Tried(o) ==
            IF Catches("XtremIOAlreadyMappedError", o.out)
            THEN find_lunmap(cl, o.ctx, ig, volume_id)
            ELSE o
        Posted(c) ==
            IF c.out.kind = "raise" THEN Tried(Done(c.out, c.ctx))
            ELSE Tried(obj_from_result(cl, c.ctx, c.out.val))
    IN  Posted(Call(cl, ctx, Rq(cl, "lun-maps", "POST", data, "", 0)))

-----------------------------------------------------------------------------
(* Connections: the operations of XtremIOVolumeDriver, XtremIOISCSIDriver   *)
(* and XtremIOFCDriver that attach a volume to a host and detach it.        *)

\* subscripting None
NoneNotSubscriptable ==
    Raise(Exc("TypeError", "'NoneType' object is not subscriptable"))

\* wwpn.replace(':', '') for the port addresses of the model
NoColons(wwpn) ==
    CASE wwpn = "10:00" -> "1000"
      [] wwpn = "10:01" -> "1001"
      [] wwpn = "21:00" -> "2100"
      [] wwpn = "21:01" -> "2101"
      [] OTHER -> wwpn

\* ':'.join(wwpn[i:i + 2] for i in range(0, len(wwpn), 2))
ColonsJoined(wwpn) ==
    CASE wwpn = "1000" -> "10:00"
      [] wwpn = "1001" -> "10:01"
      [] OTHER -> wwpn

\* ':' in wwpn
HasColon(wwpn) == wwpn \in {"10:00", "10:01", "21:00", "21:01"}

\* '-fc' in name
HasFc(name) == name \in {"X1-SC1-fc1", "X1-SC1-fc2"}

\* a variant of _get_ig that never finds the group
get_ig_Absent(cl, ctx, name) == Done(ReturnNone, ctx)

\* XtremIOVolumeDriver._get_ig
get_ig(cl, ctx, name) ==
    LET Got(c) ==
            IF Catches("NotFound", c.out) THEN Done(ReturnNone, c.ctx)
            ELSE IF c.out.kind = "raise" THEN Done(c.out, c.ctx)
            ELSE Done(Return("json", c.out.val["content"]), c.ctx)
    IN  Got(Call(cl, ctx, Rq(cl, "initiator-groups", "GET", EmptyDict,
                             name, 0)))

\* XtremIOVolumeDriver._create_ig
create_ig(cl, ctx, name) ==
    LET Got(c) ==
            IF Catches("NotFound", c.out)
            THEN Done(Raise(Exc("VolumeBackendAPIException",
                                "Failed to create IG, %s")), c.ctx)
            ELSE IF c.out.kind = "raise" THEN Done(c.out, c.ctx)
            ELSE Done(Return("json", c.out.val["content"]), c.ctx)
        Posted(c) ==
            IF c.out.kind = "raise" THEN Done(c.out, c.ctx)
            ELSE Got(Call(cl, c.ctx, Rq(cl, "initiator-groups", "GET",
                                        EmptyDict, name, 0)))
    IN  Posted(Call(cl, ctx, Rq(cl, "initiator-groups", "POST",
                                "ig-name" :> name, "", 0)))

\* _get_ig_indexes_from_initiators: the loop over the initiator names, from
\* name i on; ig_indexes is the set collected so far
RECURSIVE get_ig_indexes_loop(_, _, _, _, _)
get_ig_indexes_loop(cl, ctx, names, i, ig_indexes) ==
    LET Got(o) ==
            IF o.out.kind = "raise" THEN o
            ELSE IF o.out.t = "none" THEN Done(NoneNotSubscriptable, o.ctx)
            ELSE get_ig_indexes_loop(cl, o.ctx, names, i + 1,
                     ig_indexes \cup
                         {Sub(o.out.val["ig-id"], XTREMIO_OID_INDEX)})
    IN  IF i > Len(names)
        THEN Done(Return("list", SortedSeq(ig_indexes)), ctx)
        ELSE Got(get_initiator(cl, ctx, names[i]))

\* XtremIOVolumeDriver._get_ig_indexes_from_initiators, given the connector's
\* initiator names; list(set) of small integers is ascending
get_ig_indexes_from_initiators(cl, ctx, names) ==
    get_ig_indexes_loop(cl, ctx, names, 1, {})

\* 'except exception.NotFound' around the DELETE of a lun-map: the outcomes
\* after which the loop goes on
LunMapRemoved_Strict(out) == out.kind = "return"

LunMapRemoved(out) == out.kind = "return" \/ Catches("NotFound", out)

\* '%s_%s_%s' % (vol['index'], ig_idx, tg['index'])
LmName(vol_index, ig_idx, tg_index) ==
    ToStr(vol_index) \o "_" \o ToStr(ig_idx) \o "_" \o ToStr(tg_index)

\* terminate_connection: the loop over the group indexes, from index i on
RECURSIVE terminate_connection_loop(_, _, _, _, _, _)
terminate_connection_loop(cl, ctx, vol, tg, ig_indexes, i) ==
    LET Deleted(c) ==
            IF LunMapRemoved(c.out)
            THEN terminate_connection_loop(cl, c.ctx, vol, tg, ig_indexes,
                                           i + 1)
            ELSE Done(c.out, c.ctx)
    IN  IF i > Len(ig_indexes) THEN Done(ReturnNone, ctx)
        ELSE Deleted(Call(cl, ctx,
                          Rq(cl, "lun-maps", "DELETE", EmptyDict,
                             LmName(vol["index"], ig_indexes[i], tg["index"]),
                             0)))

\* XtremIOVolumeDriver.terminate_connection, given the connector's initiator
\* names
terminate_connection(cl, ctx, volume_id, names) ==
    LET Indexed(vol, tg, o) ==
            IF o.out.kind = "raise" THEN o
            ELSE terminate_connection_loop(cl, o.ctx, vol, tg, o.out.val, 1)
        GotVol(tg, c) ==
            IF c.out.kind = "raise" THEN Done(c.out, c.ctx)
            ELSE Indexed(c.out.val["content"], tg,
                         get_ig_indexes_from_initiators(cl, c.ctx, names))
        GotTg(c) ==
            IF c.out.kind = "raise" THEN Done(c.out, c.ctx)
            ELSE GotVol(c.out.val["content"],
                        Call(cl, c.ctx, Rq(cl, "volumes", "GET", EmptyDict,
                                           volume_id, 0)))
    IN  GotTg(Call(cl, ctx, Rq(cl, "target-groups", "GET", EmptyDict,
                               "Default", 0)))

\* XtremIOFCDriver._get_initiator_names
fc_get_initiator_names(connector) ==
    [k \in 1..Len(connector.wwpns) |->
        IF HasColon(connector.wwpns[k]) THEN connector.wwpns[k]
        ELSE ColonsJoined(connector.wwpns[k])]

\* XtremIOFCDriver._get_ig_name
fc_get_ig_name(connector) == connector.host

\* get_targets: the fetch of the listed targets whose name holds '-fc', from
\* entry i on; fetched are the contents so far
RECURSIVE get_targets_loop(_, _, _, _, _)
get_targets_loop(cl, ctx, target_list, i, fetched) ==
    LET Got(c) ==
            IF c.out.kind = "raise" THEN Done(c.out, c.ctx)
            ELSE get_targets_loop(cl, c.ctx, target_list, i + 1,
                                  Append(fetched, c.out.val["content"]))
    IN  IF i > Len(target_list) THEN Done(Return("list", fetched), ctx)
        ELSE IF ~HasFc(target_list[i]["name"])
        THEN get_targets_loop(cl, ctx, target_list, i + 1, fetched)
        ELSE Got(Call(cl, ctx, Rq(cl, "targets", "GET", EmptyDict,
                                  target_list[i]["name"], 0)))

\* the port addresses, without colons, of the targets that are up
UpPorts(targets) ==
    LET up == SelectSeq(targets, LAMBDA t : t["port-state"] = "up")
    IN  [k \in 1..Len(up) |-> NoColons(up[k]["port-address"])]

\* XtremIOFCDriver.get_targets; cached is self._targets (<<>> for None), and
\* the result carries self._targets as the call leaves it
get_targets(cl, ctx, cached) ==
    LET Ended(o) ==
            IF Catches("NotFound", o.out)
            THEN [out |-> Raise(Exc("VolumeBackendAPIException",
                                    "Failed to get targets")),
                  ctx |-> o.ctx, targets |-> cached]
            ELSE IF o.out.kind = "raise"
            THEN [out |-> o.out, ctx |-> o.ctx, targets |-> cached]
            ELSE [out |-> Return("list", UpPorts(o.out.val)), ctx |-> o.ctx,
                  targets |-> UpPorts(o.out.val)]
        Listed(c) ==
            IF c.out.kind = "raise" THEN Done(c.out, c.ctx)
            ELSE get_targets_loop(cl, c.ctx, c.out.val["targets"], 1, <<>>)
    IN  IF cached # <<>>
        THEN [out |-> Return("list", cached), ctx |-> ctx, targets |-> cached]
        ELSE Ended(Listed(Call(cl, ctx, Rq(cl, "targets", "GET", EmptyDict,
                                           "", 0))))

\* 'if num_vols > 0: data = {} else: ...' with i_t_map as the loop built it
\* and wwns = self.get_targets(), called after the loop
ZoneData(num_vols, i_t_map, wwns) ==
    IF num_vols > 0 THEN EmptyDict
    ELSE ("target_wwn" :> wwns) @@ ("initiator_target_map" :> i_t_map)

\* 'for initiator in ...: i_t_map[initiator.replace(':', '')] =
\* self.get_targets()', from name i on: get_targets is called once for every
\* name and the name keeps the list its own call returned
RECURSIVE target_map_loop(_, _, _, _, _, _)
target_map_loop(cl, ctx, names, i, i_t_map, cached) ==
    LET Got(t) ==
            IF t.out.kind = "raise" THEN t
            ELSE target_map_loop(cl, t.ctx, names, i + 1,
                                 (NoColons(names[i]) :> t.out.val) @@ i_t_map,
                                 t.targets)
    IN  IF i > Len(names)
        THEN [out |-> Return("json", i_t_map), ctx |-> ctx,
              targets |-> cached]
        ELSE Got(get_targets(cl, ctx, cached))

\* XtremIOFCDriver.terminate_connection; the result carries self._targets
fc_terminate_connection(cl, ctx, volume_id, connector, cached) ==
    LET names == fc_get_initiator_names(connector)
        Failed(o) == [out |-> o.out, ctx |-> o.ctx, targets |-> cached]
        Ended(data, c, t) ==
            [out |-> Return("json", ("driver_volume_type" :> "fibre_channel")
                                        @@ ("data" :> data)),
             ctx |-> c, targets |-> t]
        Zoned(num_vols, i_t_map, t) ==
            IF t.out.kind = "raise" THEN t
            ELSE Ended(ZoneData(num_vols, i_t_map, t.out.val), t.ctx,
                       t.targets)
        Mapped(num_vols, m) ==
            IF m.out.kind = "raise" THEN m
            ELSE Zoned(num_vols, m.out.val, get_targets(cl, m.ctx, m.targets))
        Counted(o) ==
            IF o.out.kind = "raise" THEN Failed(o)
            ELSE IF o.out.val > 0
            THEN Ended(ZoneData(o.out.val, EmptyDict, <<>>), o.ctx, cached)
            ELSE Mapped(o.out.val,
                        target_map_loop(cl, o.ctx, names, 1, EmptyDict,
                                        cached))
        Terminated(o) ==
            IF o.out.kind = "raise" THEN Failed(o)
            ELSE Counted(num_of_mapped_volumes(cl, o.ctx,
                                               fc_get_ig_name(connector)))
    IN  Terminated(terminate_connection(cl, ctx, volume_id, names))

-----------------------------------------------------------------------------
\* list(set(names)): the names of the set in the order hash_order, which
\* stands for the order Python's string hashing gives them in this run
ListOfSet(names, hash_order) == SelectSeq(hash_order, LAMBDA n : n \in names)

\* initialize_connection: 'for wwpn in wwpns', from wwpn i on; the result is
\* [found, new, i_t_map] and carries self._targets.  Every wwpn keeps in
\* i_t_map the list its own get_targets call returned
RECURSIVE fc_found_new_loop(_, _, _, _, _, _, _, _)
fc_found_new_loop(cl, ctx, wwpns, i, found, new, i_t_map, cached) ==
    LET Targeted(f, n, t) ==
            IF t.out.kind = "raise" THEN t
            ELSE fc_found_new_loop(cl, t.ctx, wwpns, i + 1, f, n,
                                   (NoColons(wwpns[i]) :> t.out.val)
                                       @@ i_t_map,
                                   t.targets)
        Got(o) ==
            IF o.out.kind = "raise"
            THEN [out |-> o.out, ctx |-> o.ctx, targets |-> cached]
            ELSE Targeted(IF o.out.t = "none" THEN found
                          ELSE Append(found, o.out.val),
                          IF o.out.t = "none" THEN Append(new, wwpns[i])
                          ELSE new,
                          get_targets(cl, o.ctx, cached))
    IN  IF i > Len(wwpns)
        THEN [out |-> Return("json", [found |-> found, new |-> new,
                                      i_t_map |-> i_t_map]),
              ctx |-> ctx, targets |-> cached]
        ELSE Got(get_initiator(cl, ctx, wwpns[i]))

\* initialize_connection: 'for wwpn in new', from wwpn i on
RECURSIVE fc_new_initiators_loop(_, _, _, _, _)
fc_new_initiators_loop(cl, ctx, new, ig_name, i) ==
    LET data == ("initiator-name" :> new[i]) @@ ("ig-id" :> ig_name)
                    @@ ("port-address" :> new[i])
        Posted(c) ==
            IF c.out.kind = "raise" THEN Done(c.out, c.ctx)
            ELSE fc_new_initiators_loop(cl, c.ctx, new, ig_name, i + 1)
    IN  IF i > Len(new) THEN Done(ReturnNone, ctx)
        ELSE Posted(Call(cl, ctx, Rq(cl, "initiators", "POST", data, "", 0)))

\* initialize_connection: 'for ig in igs', from group i on; lun_num is 0
\* for None
RECURSIVE fc_lun_maps_loop(_, _, _, _, _, _)
fc_lun_maps_loop(cl, ctx, volume_id, igs, i, lun_num) ==
    LET Mapped(o) ==
            IF o.out.kind = "raise" THEN o
            ELSE IF o.out.t = "none" THEN Done(NoneNotSubscriptable, o.ctx)
            ELSE fc_lun_maps_loop(cl, o.ctx, volume_id, igs, i + 1,
                                  o.out.val["lun"])
    IN  IF i > Len(igs) THEN Done(Return("int", lun_num), ctx)
        ELSE Mapped(create_lun_map(cl, ctx, volume_id, igs[i], lun_num))

\* the groups to map the volume to: those of the initiators found and, if
\* one was created, the group ig of the new ones
GroupsOf(found, new, ig, hash_order) ==
    LET igs == ListOfSet({Sub(found[k]["ig-id"], XTREMIO_OID_NAME) :
                             k \in 1..Len(found)}, hash_order)
        name == Sub(ig["ig-id"], XTREMIO_OID_NAME)
    IN  IF new # <<>> /\ \A k \in 1..Len(igs) : igs[k] # name
        THEN Append(igs, name) ELSE igs

\* initialize_connection, 'if new:': the group named ig_name is read, or
\* created if there is none, and the new initiators are created in it; the
\* result is the group
fc_new_initiators(cl, ctx, ig_name, new) ==
    LET Added(ig, o) ==
            IF o.out.kind = "raise" THEN o
            ELSE Done(Return("json", ig), o.ctx)
        HasIg(o) ==
            IF o.out.kind = "raise" THEN o
            ELSE Added(o.out.val,
                       fc_new_initiators_loop(cl, o.ctx, new, ig_name, 1))
        GotIg(o) ==
            IF o.out.kind = "raise" THEN o
            ELSE HasIg(IF o.out.t = "none" THEN create_ig(cl, o.ctx, ig_name)
                       ELSE o)
    IN  GotIg(get_ig(cl, ctx, ig_name))

\* XtremIOFCDriver.initialize_connection; the result carries self._targets
fc_initialize_connection(cl, ctx, volume_id, connector, hash_order, cached) ==
    LET wwpns == fc_get_initiator_names(connector)
        ig_name == fc_get_ig_name(connector)
        Fails(o, t) == [out |-> o.out, ctx |-> o.ctx, targets |-> t]
        Ended(lun_num, i_t_map, t) ==
            IF t.out.kind = "raise" THEN t
            ELSE [out |-> Return("json",
                      ("driver_volume_type" :> "fibre_channel")
                        @@ ("data" :>
                              (("target_discovered" :> FALSE)
                                 @@ ("target_lun" :> lun_num)
                                 @@ ("target_wwn" :> t.out.val)
                                 @@ ("initiator_target_map" :> i_t_map)))),
                  ctx |-> t.ctx, targets |-> t.targets]
        Mapped(i_t_map, o, t) ==
            IF o.out.kind = "raise" THEN Fails(o, t)
            ELSE Ended(o.out.val, i_t_map, get_targets(cl, o.ctx, t))
        Free(igs, i_t_map, o, t) ==
            IF o.out.kind = "raise" THEN Fails(o, t)
            ELSE Mapped(i_t_map,
                        fc_lun_maps_loop(cl, o.ctx, volume_id, igs, 1,
                                         o.out.val), t)
        Grouped(igs, i_t_map, c, t) ==
            Free(igs, i_t_map,
                 IF Len(igs) > 1 THEN get_free_lun(cl, c, igs)
                 ELSE Done(Return("int", 0), c),
                 t)
        Prepared(fn, o, t) ==
            IF o.out.kind = "raise" THEN Fails(o, t)
            ELSE Grouped(GroupsOf(fn.found, fn.new, o.out.val, hash_order),
                         fn.i_t_map, o.ctx, t)
        Sorted(l) ==
            IF l.out.kind = "raise" THEN l
            ELSE Prepared(l.out.val,
                          IF l.out.val.new # <<>>
                          THEN fc_new_initiators(cl, l.ctx, ig_name,
                                                 l.out.val.new)
                          ELSE Done(ReturnNone, l.ctx),
                          l.targets)
    IN  Sorted(fc_found_new_loop(cl, ctx, wwpns, 1, <<>>, <<>>, EmptyDict,
                                 cached))

\* XtremIOISCSIDriver._add_auth; rnd = [login, disc] are the passwords that
\* self._get_password() draws, "" stands for None
add_auth(data, login_chap, discovery_chap, rnd) ==
    [data |-> data
        @@ (IF login_chap
            THEN ("initiator-authentication-user-name" :> "chap_user")
                    @@ ("initiator-authentication-password" :> rnd.login)
            ELSE EmptyDict)
        @@ (IF discovery_chap
            THEN ("initiator-discovery-user-name" :> "chap_user")
                    @@ ("initiator-discovery-password" :> rnd.disc)
            ELSE EmptyDict),
     login |-> IF login_chap THEN rnd.login ELSE "",
     disc |-> IF discovery_chap THEN rnd.disc ELSE ""]

\* XtremIOISCSIDriver._get_initiator_names
iscsi_get_initiator_names(connector) == <<connector.initiator>>

\* XtremIOISCSIDriver._get_ig_name
iscsi_get_ig_name(connector) == connector.initiator

\* XtremIOISCSIDriver._create_initiator: returns the two passwords
create_initiator(cl, ctx, connector, login_chap, discovery_chap, rnd) ==
    LET initiator == iscsi_get_initiator_names(connector)[1]
        auth == add_auth(("initiator-name" :> initiator)
                            @@ ("ig-id" :> initiator)
                            @@ ("port-address" :> initiator),
                         login_chap, discovery_chap, rnd)
        Posted(c) ==
            IF c.out.kind = "raise" THEN Done(c.out, c.ctx)
            ELSE Done(Return("json", [login |-> auth.login,
                                      disc |-> auth.disc]), c.ctx)
    IN  Posted(Call(cl, ctx, Rq(cl, "initiators", "POST", auth.data, "", 0)))

\* sys.get(key, 'disabled') != 'disabled'
ChapEnabled(sys, key) ==
    (IF key \in DOMAIN sys THEN sys[key] ELSE "disabled") # "disabled"

\* initialize_connection, 'if initiator:': the passwords of the initiator
\* and its group (None if the group is not found)
iscsi_found_initiator(cl, ctx, initiator) ==
    LET Got(o) ==
            IF o.out.kind = "raise" THEN o
            ELSE Done(Return("json",
                        [login |->
                            initiator["chap-authentication-initiator-password"],
                         disc |->
                            initiator["chap-discovery-initiator-password"],
                         ig |-> o.out]), o.ctx)
    IN  Got(get_ig(cl, ctx, Sub(initiator["ig-id"], XTREMIO_OID_NAME)))

\* initialize_connection, 'else:': the group named by the connector is read,
\* or created if there is none, and the initiator is created in it
iscsi_new_initiator(cl, ctx, connector, login_chap, discovery_chap, rnd) ==
    LET Made(ig, o) ==
            IF o.out.kind = "raise" THEN o
            ELSE Done(Return("json", [login |-> o.out.val.login,
                                      disc |-> o.out.val.disc, ig |-> ig]),
                      o.ctx)
        HasIg(o) ==
            IF o.out.kind = "raise" THEN o
            ELSE Made(o.out, create_initiator(cl, o.ctx, connector, login_chap,
                                              discovery_chap, rnd))
        GotIg(o) ==
            IF o.out.kind = "raise" THEN o
            ELSE HasIg(IF o.out.t = "none"
                       THEN create_ig(cl, o.ctx, iscsi_get_ig_name(connector))
                       ELSE o)
    IN  GotIg(get_ig(cl, ctx, iscsi_get_ig_name(connector)))

\* initialize_connection, 'if login_chap and not login_passwd:'; p holds the
\* passwords so far, initiator is the out of get_initiator
iscsi_add_passwords(cl, ctx, initiator, p, login_chap, discovery_chap, rnd) ==
    LET auth == add_auth(EmptyDict, login_chap,
                         discovery_chap /\ p.disc = "", rnd)
        pw == [login |-> auth.login,
               disc |-> IF p.disc # "" THEN p.disc ELSE auth.disc]
        Put(c) ==
            IF c.out.kind = "raise" THEN Done(c.out, c.ctx)
            ELSE Done(Return("json", pw), c.ctx)
    IN  IF ~(login_chap /\ p.login = "")
        THEN Done(Return("json", [login |-> p.login, disc |-> p.disc]), ctx)
        ELSE IF initiator.t = "none" THEN Done(NoneNotSubscriptable, ctx)
        ELSE Put(Call(cl, ctx, Rq(cl, "initiators", "PUT", auth.data, "",
                                  initiator.val["index"])))

\* '%(ip)s:%(port)d' % {'ip': p['ip-addr'].split('/')[0], 'port':
\* p['ip-port']}, as its ':'-separated parts
PortalAddr(p) == <<p["ip-addr"][1], p["ip-port"]>>

\* XtremIOISCSIDriver._get_iscsi_properties; lunmap is the out of
\* create_lun_map, choice the draw of RANDOM.choice, cached self._portals
\* of the client; the result carries self._portals
get_iscsi_properties(cl, ctx, lunmap, choice, cached) ==
    LET Props(ps, portal) ==
            ("target_discovered" :> FALSE)
                @@ ("target_iqn" :> portal["port-address"])
                @@ ("target_lun" :> lunmap.val["lun"])
                @@ ("target_portal" :> PortalAddr(portal))
                @@ ("target_iqns" :>
                        [k \in 1..Len(ps) |-> ps[k]["port-address"]])
                @@ ("target_portals" :>
                        [k \in 1..Len(ps) |-> PortalAddr(ps[k])])
                @@ ("target_luns" :>
                        [k \in 1..Len(ps) |-> lunmap.val["lun"]])
        Got(g) ==
            IF g.out.kind = "raise" THEN g
            ELSE IF g.out.val = <<>>
            THEN [out |-> Raise(Exc("VolumeDriverException",
                     "XtremIO not configured correctly, no iscsi portals found")),
                  ctx |-> g.ctx, portals |-> g.portals]
            ELSE IF lunmap.t = "none"
            THEN [out |-> NoneNotSubscriptable, ctx |-> g.ctx,
                  portals |-> g.portals]
            ELSE [out |-> Return("json",
                     Props(g.out.val,
                           g.out.val[((choice - 1) % Len(g.out.val)) + 1])),
                  ctx |-> g.ctx, portals |-> g.portals]
    IN  Got(get_iscsi_portals(cl, ctx, cached))

\* the CHAP properties that initialize_connection adds
WithChap(properties, login_chap, discovery_chap, pw) ==
    (IF login_chap
     THEN ("auth_method" :> "CHAP") @@ ("auth_username" :> "chap_user")
             @@ ("auth_password" :> pw.login)
     ELSE EmptyDict)
        @@ (IF discovery_chap
            THEN ("discovery_auth_method" :> "CHAP")
                    @@ ("discovery_auth_username" :> "chap_user")
                    @@ ("discovery_auth_password" :> pw.disc)
            ELSE EmptyDict)
        @@ properties

\* XtremIOISCSIDriver.initialize_connection; rnd = [login, disc, choice] are
\* the random draws of the call; the result carries self._portals and the
\* client, whose cluster_id get_cluster may set
iscsi_initialize_connection(cl, ctx, volume_id, connector, rnd, cached) ==
    LET Fails(k, o) ==
            [out |-> o.out, ctx |-> o.ctx, portals |-> cached, client |-> k]
        Ended(k, lc, dc, pw, g) ==
            IF g.out.kind = "raise"
            THEN [out |-> g.out, ctx |-> g.ctx, portals |-> g.portals,
                  client |-> k]
            ELSE [out |-> Return("json",
                             ("driver_volume_type" :> "iscsi")
                                @@ ("data" :> WithChap(g.out.val, lc, dc, pw))),
                  ctx |-> g.ctx, portals |-> g.portals, client |-> k]
        Mapped(k, lc, dc, pw, o) ==
            IF o.out.kind = "raise" THEN Fails(k, o)
            ELSE Ended(k, lc, dc, pw,
                       get_iscsi_properties(k, o.ctx, o.out, rnd.choice,
                                            cached))
        Authed(k, lc, dc, ig, o) ==
            IF o.out.kind = "raise" THEN Fails(k, o)
            ELSE IF ig.t = "none"
            THEN Fails(k, Done(NoneNotSubscriptable, o.ctx))
            ELSE Mapped(k, lc, dc, o.out.val,
                        create_lun_map(k, o.ctx, volume_id,
                                       Sub(ig.val["ig-id"], XTREMIO_OID_NAME),
                                       0))
        Prepared(k, lc, dc, initiator, o) ==
            IF o.out.kind = "raise" THEN Fails(k, o)
            ELSE Authed(k, lc, dc, o.out.val.ig,
                        iscsi_add_passwords(k, o.ctx, initiator, o.out.val,
                                            lc, dc, rnd))
        Got(k, lc, dc, o) ==
            IF o.out.kind = "raise" THEN Fails(k, o)
            ELSE Prepared(k, lc, dc, o.out,
                          IF o.out.t # "none"
                          THEN iscsi_found_initiator(k, o.ctx, o.out.val)
                          ELSE iscsi_new_initiator(k, o.ctx, connector, lc, dc,
                                                   rnd))
        Sys(g) ==
            IF Catches("NotFound", g.out)
            THEN Fails(g.client,
                       Done(Raise(Exc("VolumeBackendAPIException",
                          "XtremIO not initialized correctly, no clusters found")),
                            g.ctx))
            ELSE IF g.out.kind = "raise" THEN Fails(g.client, g)
            ELSE Got(g.client,
                     ChapEnabled(g.out.val, "chap-authentication-mode"),
                     ChapEnabled(g.out.val, "chap-discovery-mode"),
                     get_initiator(g.client, g.ctx,
                                   iscsi_get_initiator_names(connector)[1]))
    IN  Sys(get_cluster(cl, ctx))

(* The Unity system as the storops library presents it.                     *)
(* sys = [luns, snaps, policies, hlus]: luns [id, name], snaps [id, name,   *)
(* lun], io limit policies [id, name, max_iops] and host attachments        *)
(* [host, res, hlu] with res = [kind, id].  A storops call gives [out, sys].*)

EmptyUnity == [luns |-> {}, snaps |-> {}, policies |-> {}, hlus |-> {}]

FreeId(objs) ==
    CHOOSE i \in 1..(Cardinality(objs) + 1) : \A o \in objs : o.id # i

Res(kind, o) == [kind |-> kind, id |-> o.id]

Attached(sys, res) == \E h \in sys.hlus : h.res = res

UnityRaise(sys, cls) == [out |-> Raise(Exc(cls, "")), sys |-> sys]

\* the k-th storops call of an operation; the call with number `fault` fails
\* with an error of the library that no except clause of the client names
Storops(k, fault, sys, r) ==
    IF fault = k THEN UnityRaise(sys, "UnityException") ELSE r

\* pool.create_lun(lun_name=name, ...)
pool_create_lun(sys, name) ==
    LET lun == [id |-> FreeId(sys.luns), name |-> name]
    IN  IF \E l \in sys.luns : l.name = name
        THEN UnityRaise(sys, "UnityLunNameInUseError")
        ELSE [out |-> Return("lun", lun),
              sys |-> [sys EXCEPT !.luns = @ \cup {lun}]]

\* system.get_lun(_id=lun_id, name=name); 0 and "" stand for None
system_get_lun(sys, lun_id, name) ==
    LET hit == {l \in sys.luns : \/ lun_id # 0 /\ l.id = lun_id
                                 \/ lun_id = 0 /\ l.name = name}
    IN  IF hit = {} THEN UnityRaise(sys, "UnityResourceNotFoundError")
        ELSE [out |-> Return("lun", CHOOSE l \in hit : TRUE), sys |-> sys]

\* lun.delete(): a LUN with snapshots or host access is not deleted
lun_delete(sys, lun) ==
    IF lun \notin sys.luns THEN UnityRaise(sys, "UnityResourceNotFoundError")
    ELSE IF (\E n \in sys.snaps : n.lun = lun.id)
               \/ Attached(sys, Res("lun", lun))
    THEN UnityRaise(sys, "UnityException")
    ELSE [out |-> ReturnNone, sys |-> [sys EXCEPT !.luns = @ \ {lun}]]

\* lun.create_snap(name, is_auto_delete=False)
lun_create_snap(sys, lun, name) ==
    LET snap == [id |-> FreeId(sys.snaps), name |-> name, lun |-> lun.id]
    IN  IF lun \notin sys.luns
        THEN UnityRaise(sys, "UnityResourceNotFoundError")
        ELSE IF \E n \in sys.snaps : n.name = name
        THEN UnityRaise(sys, "UnitySnapNameInUseError")
        ELSE [out |-> Return("snap", snap),
              sys |-> [sys EXCEPT !.snaps = @ \cup {snap}]]

\* system.get_snap(name=name)
system_get_snap(sys, name) ==
    LET hit == {n \in sys.snaps : n.name = name}
    IN  IF hit = {} THEN UnityRaise(sys, "UnityResourceNotFoundError")
        ELSE [out |-> Return("snap", CHOOSE n \in hit : TRUE), sys |-> sys]

\* snap.delete()
snap_delete(sys, snap) ==
    IF snap \notin sys.snaps
    THEN UnityRaise(sys, "UnityResourceNotFoundError")
    ELSE IF Attached(sys, Res("snap", snap))
    THEN UnityRaise(sys, "UnityDeleteAttachedSnapError")
    ELSE [out |-> ReturnNone, sys |-> [sys EXCEPT !.snaps = @ \ {snap}]]

\* system.create_io_limit_policy(name, max_iops=max_iops, max_kbps=None)
system_create_io_limit_policy(sys, name, max_iops) ==
    LET limit == [id |-> FreeId(sys.policies), name |-> name,
                  max_iops |-> max_iops]
    IN  IF \E q \in sys.policies : q.name = name
        THEN UnityRaise(sys, "UnityPolicyNameInUseError")
        ELSE [out |-> Return("policy", limit),
              sys |-> [sys EXCEPT !.policies = @ \cup {limit}]]

\* system.get_io_limit_policy(name=name)
system_get_io_limit_policy(sys, name) ==
    LET hit == {q \in sys.policies : q.name = name}
    IN  IF hit = {} THEN UnityRaise(sys, "UnityResourceNotFoundError")
        ELSE [out |-> Return("policy", CHOOSE q \in hit : TRUE), sys |-> sys]

\* host.attach(lun_or_snap, skip_hlu_0=True): the lowest free host LUN from 1
host_attach(sys, host, res) ==
    LET used == {h.hlu : h \in {x \in sys.hlus : x.host = host}}
        hlu == CHOOSE n \in 1..(Cardinality(used) + 1) : n \notin used
    IN  IF \E h \in sys.hlus : h.host = host /\ h.res = res
        THEN UnityRaise(sys, "UnityResourceAlreadyAttachedError")
        ELSE [out |-> Return("int", hlu),
              sys |-> [sys EXCEPT !.hlus = @ \cup
                          {[host |-> host, res |-> res, hlu |-> hlu]}]]

\* host.get_hlu(lun_or_snap)
host_get_hlu(sys, host, res) ==
    LET hit == {h \in sys.hlus : h.host = host /\ h.res = res}
    IN  IF hit = {} THEN [out |-> ReturnNone, sys |-> sys]
        ELSE [out |-> Return("int", (CHOOSE h \in hit : TRUE).hlu),
              sys |-> sys]

\* lun_or_snap.update(): the object's properties are read again
resource_update(sys, res) == [out |-> ReturnNone, sys |-> sys]

\* host.detach(lun_or_snap): the host's access to the resource ends
host_detach(sys, host, res) ==
    [out |-> ReturnNone,
     sys |-> [sys EXCEPT !.hlus = {h \in @ : ~(h.host = host /\ h.res = res)}]]

-----------------------------------------------------------------------------
(* UnityClient.  An operation gives [out, sys, events]; events are the log  *)
(* records it emitted and the errors it caught and did not raise again, in  *)
(* order.                                                                   *)

Log(level) == [kind |-> "log", level |-> level]

Suppressed(cls) == [kind |-> "suppressed", cls |-> cls]

UnityDone(r, events) == [out |-> r.out, sys |-> r.sys, events |-> events]

\* a variant of create_lun without the except clause
create_lun_NoFetch(sys, name, fault) ==
    LET Answered(c) == UnityDone(c, <<>>)
    IN  Answered(Storops(1, fault, sys, pool_create_lun(sys, name)))

\* UnityClient.create_lun(name, size, pool)
create_lun(sys, name, fault) ==
    LET Answered(c) ==
            IF Catches("UnityLunNameInUseError", c.out)
            THEN UnityDone(Storops(2, fault, c.sys,
                                   system_get_lun(c.sys, 0, name)),
                           <<Suppressed("UnityLunNameInUseError"),
                             Log("debug")>>)
            ELSE UnityDone(c, <<>>)
    IN  Answered(Storops(1, fault, sys, pool_create_lun(sys, name)))

\* UnityClient.delete_lun(lun_id)
delete_lun(sys, lun_id, fault) ==
    LET Ignored(c) ==
            UnityDone([out |-> ReturnNone, sys |-> c.sys],
                      <<Suppressed("UnityResourceNotFoundError"),
                        Log("debug")>>)
        Deleted(d) ==
            IF Catches("UnityResourceNotFoundError", d.out) THEN Ignored(d)
            ELSE UnityDone(d, <<>>)
        Got(g) ==
            IF Catches("UnityResourceNotFoundError", g.out) THEN Ignored(g)
            ELSE IF g.out.kind = "raise" THEN UnityDone(g, <<>>)
            ELSE Deleted(Storops(2, fault, g.sys,
                                 lun_delete(g.sys, g.out.val)))
    IN  Got(Storops(1, fault, sys, system_get_lun(sys, lun_id, "")))

\* UnityClient.get_lun(lun_id, name), its storops call being the k-th of the
\* operation
get_lun(sys, lun_id, name, k, fault) ==
    LET Got(g) ==
            IF Catches("UnityResourceNotFoundError", g.out)
            THEN UnityDone([out |-> ReturnNone, sys |-> g.sys],
                           <<Suppressed("UnityResourceNotFoundError"),
                             Log("warning")>>)
            ELSE UnityDone(g, <<>>)
    IN  IF lun_id = 0 /\ name = ""
        THEN UnityDone([out |-> ReturnNone, sys |-> sys], <<Log("warning")>>)
        ELSE Got(Storops(k, fault, sys, system_get_lun(sys, lun_id, name)))

\* UnityClient.get_snap(name), its storops call being the k-th
get_snap(sys, name, k, fault) ==
    LET Got(g) ==
            IF Catches("UnityResourceNotFoundError", g.out)
            THEN UnityDone([out |-> ReturnNone, sys |-> g.sys],
                           <<Suppressed("UnityResourceNotFoundError"),
                             Log("warning")>>)
            ELSE UnityDone(g, <<>>)
    IN  Got(Storops(k, fault, sys, system_get_snap(sys, name)))

\* UnityClient.create_snap(src_lun_id, name)
create_snap(sys, src_lun_id, name, fault) ==
    LET After(ev, r) == UnityDone(r, ev \o r.events)
        Answered(ev, c) ==
            IF Catches("UnitySnapNameInUseError", c.out)
            THEN After(ev \o <<Suppressed("UnitySnapNameInUseError"),
                               Log("debug")>>,
                       get_snap(c.sys, name, 3, fault))
            ELSE UnityDone(c, ev)
        Got(l) ==
            IF l.out.kind = "raise" THEN l
            ELSE IF l.out.t = "none"
            THEN UnityDone(UnityRaise(l.sys, "AttributeError"), l.events)
            ELSE Answered(l.events,
                         Storops(2, fault, l.sys,
                                 lun_create_snap(l.sys, l.out.val, name)))
    IN  Got(get_lun(sys, src_lun_id, "", 1, fault))

\* `snap is None`
NoSnap == [id |-> 0, name |-> "", lun |-> 0]

\* a variant of delete_snap without the except clause for a missing snapshot
delete_snap_NoIgnore(sys, snap, fault) ==
    LET Deleted(d) ==
            IF Catches("UnityDeleteAttachedSnapError", d.out)
            THEN UnityDone(d, <<Log("warning")>>)
            ELSE UnityDone(d, <<>>)
    IN  IF snap = NoSnap
        THEN UnityDone([out |-> ReturnNone, sys |-> sys], <<Log("debug")>>)
        ELSE Deleted(Storops(1, fault, sys, snap_delete(sys, snap)))

\* UnityClient.delete_snap(snap)
delete_snap(sys, snap, fault) ==
    LET Deleted(d) ==
            IF Catches("UnityResourceNotFoundError", d.out)
            THEN UnityDone([out |-> ReturnNone, sys |-> d.sys],
                           <<Suppressed("UnityResourceNotFoundError"),
                             Log("debug")>>)
            ELSE IF Catches("UnityDeleteAttachedSnapError", d.out)
            THEN UnityDone(d, <<Log("warning")>>)
            ELSE UnityDone(d, <<>>)
    IN  IF snap = NoSnap
        THEN UnityDone([out |-> ReturnNone, sys |-> sys], <<Log("debug")>>)
        ELSE Deleted(Storops(1, fault, sys, snap_delete(sys, snap)))

\* UnityClient.create_io_limit_policy(name, max_iops)
create_io_limit_policy(sys, name, max_iops, fault) ==
    LET Answered(c) ==
            IF Catches("UnityPolicyNameInUseError", c.out)
            THEN UnityDone(Storops(2, fault, c.sys,
                                   system_get_io_limit_policy(c.sys, name)),
                           <<Suppressed("UnityPolicyNameInUseError")>>)
            ELSE UnityDone(c, <<>>)
    IN  Answered(Storops(1, fault, sys,
                        system_create_io_limit_policy(sys, name, max_iops)))

\* UnityClient.attach(host, lun_or_snap)
attach(sys, host, res, fault) ==
    LET Tried(a) ==
            IF Catches("UnityResourceAlreadyAttachedError", a.out)
            THEN UnityDone(Storops(2, fault, a.sys,
                                   host_get_hlu(a.sys, host, res)),
                           <<Suppressed("UnityResourceAlreadyAttachedError")>>)
            ELSE UnityDone(a, <<>>)
    IN  Tried(Storops(1, fault, sys, host_attach(sys, host, res)))

\* UnityClient.detach(host, lun_or_snap)
detach(sys, host, res, fault) ==
    LET Updated(u) ==
            IF u.out.kind = "raise" THEN UnityDone(u, <<>>)
            ELSE UnityDone(Storops(2, fault, u.sys,
                                   host_detach(u.sys, host, res)), <<>>)
    IN  Updated(Storops(1, fault, sys, resource_update(sys, res)))

-----------------------------------------------------------------------------
(* Specification Spec: single req calls against a mock backend whose answers *)
(* are drawn from MockAnswers.                                               *)

Clients ==
    {[cls |-> c, cluster_id |-> i] :
        c \in {"XtremIOClient3", "XtremIOClient4"}, i \in {"", "c1"}}

\* the one cluster of the array
Cluster(version) ==
    [index |-> 1, name |-> "c1", version |-> version, login |-> "",
     disc |-> ""]

EmptyArray ==
    [vols |-> {}, luns |-> {}, igs |-> InitialIGs, cgs |-> {},
     snapsets |-> {}, inits |-> {}, targets |-> Targets,
     clusters |-> <<Cluster(Version(4, 0, 2, "80"))>>,
     iscsi |-> <<[index |-> 1, name |-> "p1", ip |-> <<"10.0.0.1", "24">>,
                  iqn |-> "iqn.p1"],
                 [index |-> 2, name |-> "p2", ip |-> <<"10.0.0.2", "24">>,
                  iqn |-> "iqn.p2"]>>]

NoCall == [op |-> "none"]

\* the calls that run concurrently on the client
Tasks == {1, 2}

Idle == [pc |-> "idle", names |-> <<>>, i |-> 0, out |-> ReturnNone]

NoTasks == [t \in Tasks |-> Idle]

Messages ==
    {OBJ_NOT_FOUND_ERR, VOL_OBJ_NOT_FOUND_ERR, VOL_NOT_UNIQUE_ERR,
     ALREADY_MAPPED_ERR, SYSTEM_BUSY, TOO_MANY_OBJECTS,
     TOO_MANY_SNAPSHOTS_PER_VOL,
     <<"vol">> \o ALREADY_MAPPED_ERR \o <<"to", "ig">>,
     ALREADY_MAPPED_ERR \o OBJ_NOT_FOUND_ERR,
     OBJ_NOT_FOUND_ERR \o <<"here">>,
     <<"cg", "obj", "name", "not", "unique">>,
     <<"invalid", "command">>}

Statuses == {200, 299, 300, 400, 500}

MockResponses ==
    {Response(st, "message" :> m) : st \in Statuses, m \in Messages}
        \cup {Response(st, b) : st \in Statuses,
                 b \in {EmptyDict, "content" :> ("name" :> "v1")}}
        \cup {NotJson(st) : st \in Statuses}

MockAnswers == {Canned(r) : r \in MockResponses} \cup {TransportFault}

MockPlans == [busy : 0..MaxBusy, then : MockAnswers]

MockRequests ==
    {Rq(client, "volumes", m, d, n, i) :
        m \in {"GET", "POST", "PUT", "DELETE"},
        d \in {EmptyDict, "vol-name" :> "v1"},
        n \in {"", "v1"}, i \in {0, 1}}

\* what a deployment configures for the two retry options: the defaults,
\* or a count and an interval that differ
Configurations ==
    {[count |-> xtremio_array_busy_retry_count,
      interval |-> xtremio_array_busy_retry_interval],
     [count |-> 2, interval |-> 3],
     [count |-> 3, interval |-> 2]}

ConfiguredClients ==
    {[cls |-> c.cls, cluster_id |-> c.cluster_id,
      xtremio_array_busy_retry_count |-> conf.count,
      xtremio_array_busy_retry_interval |-> conf.interval] :
        c \in Clients, conf \in Configurations}

Init ==
    /\ client \in ConfiguredClients
    /\ arr = EmptyArray
    /\ last = NoCall
    /\ portals = <<>>
    /\ tasks = NoTasks

\* the call req(rq) under plan has ended with res
Returned(rq, plan, res) ==
    /\ last' = [op |-> "req", rq |-> rq, plan |-> plan, res |-> res]
    /\ arr' = res.arr
    /\ UNCHANGED <<client, portals, tasks>>

\* one call client.req(...) answered by the mock backend
ReqCall ==
    /\ last = NoCall
    /\ \E rq \in MockRequests, plan \in MockPlans :
        Returned(rq, plan, req(client, rq, plan, arr))

\* the caller is done with the outcome of its last call
Forget ==
    /\ last # NoCall
    /\ last' = NoCall
    /\ UNCHANGED <<client, arr, portals, tasks>>

Next == ReqCall \/ Forget

Spec == Init /\ [][Next]_vars

-----------------------------------------------------------------------------
(* Specifications SpecVolumes and SpecLunMaps: driver operations against    *)
(* the array.  The environment scripts the answers to the first req calls   *)
(* of an operation (busy answers, a bad response, a transport fault, an     *)
(* object that has vanished); every other req call is answered by the       *)
(* array.                                                                   *)

DriverPlans ==
    {HonestPlan,
     [busy |-> 1, then |-> Honest],
     [busy |-> MaxBusy, then |-> Honest],
     [busy |-> 0, then |-> Canned(Response(500, EmptyDict))],
     [busy |-> 0, then |-> TransportFault],
     [busy |-> 0, then |-> Canned(ObjNotFound("vol"))]}

Scripts == UNION {[1..n -> DriverPlans] : n \in 0..MaxScript}

Volume(id) == [id |-> id, size |-> 1, consistencygroup_id |-> ""]

Operation(op, args, res) ==
    /\ last' = [op |-> op, args |-> args, before |-> arr, out |-> res.out,
                calls |-> res.ctx.calls]
    /\ arr' = res.ctx.arr
    /\ UNCHANGED <<client, portals, tasks>>

CreateVolume ==
    /\ last = NoCall
    /\ \E id \in Ids, script \in Scripts :
          Operation("create_volume", <<id>>,
                    create_volume(client, Ctx(arr, script), Volume(id)))

DeleteVolume ==
    /\ last = NoCall
    /\ \E id \in Ids, script \in Scripts :
          Operation("delete_volume", <<id>>,
                    delete_volume(client, Ctx(arr, script), id))

DeleteSnapshot ==
    /\ last = NoCall
    /\ \E id \in Ids, script \in Scripts :
          Operation("delete_snapshot", <<id>>,
                    delete_snapshot(client, Ctx(arr, script), id))

CreateSnapshot ==
    /\ last = NoCall
    /\ \E src \in Ids, script \in Scripts : \E id \in Ids \ {src} :
          Operation("create_snapshot", <<src, id>>,
                    create_snapshot(client, Ctx(arr, script),
                                    [volume_id |-> src, id |-> id]))

CreateLunMap ==
    /\ last = NoCall
    /\ \E id \in Ids, ig \in IGNames, script \in Scripts :
          Operation("create_lun_map", <<id, ig>>,
                    create_lun_map(client, Ctx(arr, script), id, ig, 0))

FindLunMap ==
    /\ last = NoCall
    /\ \E id \in Ids, ig \in IGNames, script \in Scripts :
          Operation("find_lunmap", <<ig, id>>,
                    find_lunmap(client, Ctx(arr, script), ig, id))

NumOfMappedVolumes ==
    /\ last = NoCall
    /\ \E ig \in IGNames, script \in Scripts :
          Operation("num_of_mapped_volumes", <<ig>>,
                    num_of_mapped_volumes(client, Ctx(arr, script), ig))

DriverClients ==
    {[cls |-> "XtremIOClient3", cluster_id |-> ""],
     [cls |-> "XtremIOClient4", cluster_id |-> "c1"]}

InitVolumes ==
    /\ client \in DriverClients
    /\ arr = EmptyArray
    /\ last = NoCall
    /\ portals = <<>>
    /\ tasks = NoTasks

NextVolumes ==
    \/ CreateVolume
    \/ DeleteVolume
    \/ DeleteSnapshot
    \/ CreateSnapshot
    \/ Forget

\* volumes and snapshots
SpecVolumes == InitVolumes /\ [][NextVolumes]_vars

\* an array on which create_volume has made the volumes v1 and s1
TwoVolumes ==
    [EmptyArray EXCEPT !.vols = {[index |-> 1, name |-> "v1", anc |-> 0],
                                 [index |-> 2, name |-> "s1", anc |-> 0]}]

InitLunMaps ==
    /\ client \in DriverClients
    /\ arr = TwoVolumes
    /\ last = NoCall
    /\ portals = <<>>
    /\ tasks = NoTasks

NextLunMaps ==
    \/ CreateLunMap
    \/ FindLunMap
    \/ NumOfMappedVolumes
    \/ Forget

\* lun-maps of the volumes v1 and s1
SpecLunMaps == InitLunMaps /\ [][NextLunMaps]_vars

-----------------------------------------------------------------------------
(* Specification SpecManage: the operations that rename a volume or a       *)
(* snapshot on the array: manage_existing, manage_existing_snapshot,        *)
(* unmanage, unmanage_snapshot and update_migrated_volume.                  *)

\* the name Cinder gives the volume / the snapshot id: volume['name'],
\* snapshot['name']
ManagedVolume(id) == [id |-> id, name |-> "volume-" \o id]

ManagedSnapshot(id, volume_id) ==
    [id |-> id, name |-> "snapshot-" \o id, volume_id |-> volume_id]

\* the names existing_ref gives: a volume's or snapshot's id, or the name
\* unmanage has left
SourceNames ==
    Ids \cup {ManagedVolume(id).name \o "-unmanged" : id \in Ids}
        \cup {ManagedSnapshot(id, "").name \o "-unmanged" : id \in Ids}

\* the scripts for an operation that makes n req calls at most
ScriptsUpTo(n) == {script \in Scripts : Len(script) <= n}

UpdateMigratedVolume ==
    /\ last = NoCall
    /\ \E id \in Ids, name_id \in {"", "m1"}, script \in ScriptsUpTo(1) :
          \E new \in Ids \ {id} :
             Operation("update_migrated_volume", <<id, new, name_id>>,
                 update_migrated_volume(client, Ctx(arr, script),
                     ManagedVolume(id),
                     [id |-> new, _name_id |-> name_id,
                      provider_location |-> ""]))

ManageExisting ==
    /\ last = NoCall
    /\ \E id \in Ids, ref \in SourceNames, script \in ScriptsUpTo(2) :
          Operation("manage_existing", <<id, ref>>,
              manage_existing(client, Ctx(arr, script), ManagedVolume(id),
                              "source-name" :> ref, FALSE))

ManageExistingSnapshot ==
    /\ last = NoCall
    /\ \E src \in Ids, ref \in SourceNames, script \in ScriptsUpTo(2) :
          \E id \in Ids \ {src} :
             Operation("manage_existing_snapshot", <<id, src, ref>>,
                 manage_existing_snapshot(client, Ctx(arr, script),
                                          ManagedSnapshot(id, src),
                                          "source-name" :> ref))

Unmanage ==
    /\ last = NoCall
    /\ \E id \in Ids, script \in ScriptsUpTo(1) :
          Operation("unmanage", <<id>>,
                    unmanage(client, Ctx(arr, script), ManagedVolume(id),
                             FALSE))

UnmanageSnapshot ==
    /\ last = NoCall
    /\ \E src \in Ids, script \in ScriptsUpTo(1) : \E id \in Ids \ {src} :
          Operation("unmanage_snapshot", <<id>>,
                    unmanage_snapshot(client, Ctx(arr, script),
                                      ManagedSnapshot(id, src)))

\* the volume v1 alone, with the unrelated volume s1, or with its snapshot s1
ManageArrays ==
    {[EmptyArray EXCEPT !.vols = vols] :
        vols \in {{[index |-> 1, name |-> "v1", anc |-> 0]},
                  {[index |-> 1, name |-> "v1", anc |-> 0],
                   [index |-> 2, name |-> "s1", anc |-> 0]},
                  {[index |-> 1, name |-> "v1", anc |-> 0],
                   [index |-> 2, name |-> "s1", anc |-> 1]}}}

InitManage ==
    /\ client \in DriverClients
    /\ arr \in ManageArrays
    /\ last = NoCall
    /\ portals = <<>>
    /\ tasks = NoTasks

NextManage ==
    \/ UpdateMigratedVolume
    \/ ManageExisting
    \/ ManageExistingSnapshot
    \/ Unmanage
    \/ UnmanageSnapshot
    \/ Forget

SpecManage == InitManage /\ [][NextManage]_vars

-----------------------------------------------------------------------------
(* Specification SpecSetup: a driver from its construction, on arrays of    *)
(* several software versions.                                               *)

Versions ==
    {Version(2, 4, 1, "15"), Version(3, 0, 0, "44"), Version(3, 0, 4, "1"),
     Version(4, 0, 2, "80"), Version(4, 2, 0, "33"), <<"3", ".", "0">>}

SetupArrays ==
    {[EmptyArray EXCEPT !.clusters = cs] :
        cs \in {<<>>} \cup {<<Cluster(v)>> : v \in Versions}}

\* self.client = XtremIOClient3(self.configuration, self.cluster_id); the
\* driver's self.cluster_id is kept beside the client as driver_cluster_id
InitSetup ==
    /\ client \in {[cls |-> "XtremIOClient3", cluster_id |-> i,
                     driver_cluster_id |-> i] : i \in {"", "c1"}}
    /\ arr \in SetupArrays
    /\ last = NoCall
    /\ portals = <<>>
    /\ tasks = NoTasks

\* check_for_setup_error has ended with res
SetupChecked(res) ==
    /\ last' = [op |-> "check_for_setup_error", args |-> <<>>,
                before |-> arr, out |-> res.out, calls |-> res.ctx.calls]
    /\ arr' = res.ctx.arr
    /\ client' = res.client
    /\ UNCHANGED <<portals, tasks>>

CheckForSetupError ==
    /\ last = NoCall
    /\ \E script \in Scripts :
          SetupChecked(check_for_setup_error(client, Ctx(arr, script),
                                             client.driver_cluster_id))

\* self.client.get_cluster(), which lets an XtremIOClient4 without a
\* cluster id learn the name of the first cluster
GetCluster ==
    /\ last = NoCall
    /\ \E script \in Scripts :
          LET res == get_cluster(client, Ctx(arr, script))
          IN  /\ last' = [op |-> "get_cluster", args |-> <<>>,
                          before |-> arr, out |-> res.out,
                          calls |-> res.ctx.calls]
              /\ arr' = res.ctx.arr
              /\ client' = res.client
              /\ UNCHANGED <<portals, tasks>>

NextSetup ==
    \/ CheckForSetupError
    \/ GetCluster
    \/ CreateVolume
    \/ DeleteVolume
    \/ Forget

SpecSetup == InitSetup /\ [][NextSetup]_vars

-----------------------------------------------------------------------------
(* Specification SpecFreeLun: _get_free_lun on arrays that hold lun-maps    *)
(* with arbitrary LUN numbers up to MaxLun.                                 *)

\* the (volume, initiator group) pairs in the order of their lun-map index
Pairs == <<[vol |-> "v1", ig |-> "ig1"], [vol |-> "v1", ig |-> "ig2"],
           [vol |-> "s1", ig |-> "ig1"], [vol |-> "s1", ig |-> "ig2"]>>

\* lun-maps of the pairs with LUN numbers f (0: the pair is not mapped)
LunMapsOf(f) ==
    {[index |-> k, vol |-> Pairs[k].vol, ig |-> Pairs[k].ig, lun |-> f[k]] :
        k \in {j \in 1..Len(Pairs) : f[j] # 0}}

\* within an initiator group a LUN number is used once
LunMapArrays ==
    {[TwoVolumes EXCEPT !.luns = LunMapsOf(f)] :
        f \in {g \in [1..Len(Pairs) -> 0..MaxLun] :
                  \A j, k \in 1..Len(Pairs) :
                      (j # k /\ Pairs[j].ig = Pairs[k].ig /\ g[j] # 0)
                          => g[j] # g[k]}}

InitFreeLun ==
    /\ client \in DriverClients
    /\ arr \in LunMapArrays
    /\ last = NoCall
    /\ portals = <<>>
    /\ tasks = NoTasks

GetFreeLun ==
    /\ last = NoCall
    /\ \E igs \in {<<>>, <<"ig1">>, <<"ig2">>, <<"ig1", "ig2">>},
          script \in Scripts :
          Operation("_get_free_lun", <<igs>>,
                    get_free_lun(client, Ctx(arr, script), igs))

NextFreeLun == GetFreeLun \/ Forget

SpecFreeLun == InitFreeLun /\ [][NextFreeLun]_vars

-----------------------------------------------------------------------------
(* Specification SpecGroups: consistency groups and their snapshot sets:    *)
(* their creation, the change of a group's volumes and their deletion, on   *)
(* arrays that hold the group g-1 or not.                                   *)

Group(id) == [id |-> id, status |-> "deleting"]

CgSnapshot(cg, id) == [consistencygroup_id |-> cg, id |-> id]

\* the volume v1; no group, or the group g-1 of the volume v1
GroupArrays ==
    {[EmptyArray EXCEPT !.vols = {[index |-> 1, name |-> "v1", anc |-> 0]},
                        !.cgs = cgs] :
        cgs \in SUBSET {[index |-> 1, name |-> "g-1", vols |-> {1}]}}

InitGroups ==
    /\ client \in DriverClients
    /\ arr \in GroupArrays
    /\ last = NoCall
    /\ portals = <<>>
    /\ tasks = NoTasks

DeleteConsistencyGroup ==
    /\ last = NoCall
    /\ \E volumes \in {<<>>, <<"v1">>, <<"v1", "s1">>},
          script \in ScriptsUpTo(2) :
          Operation("delete_consistencygroup", <<"g-1", volumes>>,
                    delete_consistencygroup(client, Ctx(arr, script),
                                            Group("g-1"), volumes))

DeleteCgSnapshot ==
    /\ last = NoCall
    /\ \E id \in {"n-1", "n2"}, script \in ScriptsUpTo(1) :
          Operation("delete_cgsnapshot", <<"g-1", id>>,
                    delete_cgsnapshot(client, Ctx(arr, script),
                                      CgSnapshot("g-1", id)))

CreateConsistencyGroup ==
    /\ last = NoCall
    /\ \E id \in {"g-1"}, script \in ScriptsUpTo(1) :
          Operation("create_consistencygroup", <<id>>,
                    create_consistencygroup(client, Ctx(arr, script),
                                            Group(id)))

UpdateConsistencyGroup ==
    /\ last = NoCall
    /\ \E add_volumes \in {<<>>, <<"v1">>},
          remove_volumes \in {<<>>, <<"v1">>}, script \in ScriptsUpTo(1) :
          Operation("update_consistencygroup",
                    <<"g-1", add_volumes, remove_volumes>>,
                    update_consistencygroup(
                        client, Ctx(arr, script), Group("g-1"),
                        [k \in 1..Len(add_volumes) |->
                            [id |-> add_volumes[k]]],
                        [k \in 1..Len(remove_volumes) |->
                            [id |-> remove_volumes[k]]]))

CreateCgSnapshot ==
    /\ last = NoCall
    /\ \E id \in {"n-1"}, script \in ScriptsUpTo(1) :
          Operation("create_cgsnapshot", <<"g-1", id>>,
                    create_cgsnapshot(client, Ctx(arr, script),
                                      CgSnapshot("g-1", id)))

\* the group g-2 of the new volume s1, made from the cgsnapshot n-1 of the
\* group g-1 (snapshots: one of the volume v1), from the group g-1 (source
\* volumes: v1), from both or from neither
CreateConsistencyGroupFromSrc ==
    /\ last = NoCall
    /\ \E cgsnapshot \in {NoObject, CgSnapshot("g-1", "n-1")},
          source_cg \in {NoObject, Group("g-1")},
          script \in ScriptsUpTo(1) :
          Operation("create_consistencygroup_from_src",
                    <<"g-2", cgsnapshot, source_cg>>,
                    create_consistencygroup_from_src(
                        client, Ctx(arr, script), Group("g-2"),
                        <<[id |-> "s1", size |-> 1,
                           consistencygroup_id |-> "g-2"]>>,
                        cgsnapshot,
                        IF cgsnapshot = NoObject THEN <<>>
                        ELSE <<[id |-> "n1-v1", volume_id |-> "v1"]>>,
                        source_cg,
                        IF source_cg = NoObject THEN <<>>
                        ELSE <<[id |-> "v1"]>>))

NextGroups ==
    \/ CreateConsistencyGroup
    \/ UpdateConsistencyGroup
    \/ CreateCgSnapshot
    \/ CreateConsistencyGroupFromSrc
    \/ DeleteConsistencyGroup
    \/ DeleteCgSnapshot
    \/ Forget

SpecGroups == InitGroups /\ [][NextGroups]_vars

-----------------------------------------------------------------------------
(* Specification SpecUnity: the operations of UnityClient on a Unity system *)
(* (held in arr), from an empty system on.                                  *)

LunNames == {"v1", "v2"}

SnapNames == {"n1", "n2"}

PolicyNames == {"q1"}

\* the storops calls an operation makes at most; fault 0: none fails
MaxStoropsCalls == 3

\* a snapshot object whose snapshot is no longer on the system
GoneSnap == [id |-> 9, name |-> "n1", lun |-> 1]

InitUnity ==
    /\ client = [cls |-> "UnityClient", cluster_id |-> ""]
    /\ arr = EmptyUnity
    /\ last = NoCall
    /\ portals = <<>>
    /\ tasks = NoTasks

UnityOperation(op, args, fault, res) ==
    /\ last' = [op |-> op, args |-> args, fault |-> fault, before |-> arr,
                out |-> res.out, events |-> res.events]
    /\ arr' = res.sys
    /\ UNCHANGED <<client, portals, tasks>>

UnityCreateLun ==
    /\ last = NoCall
    /\ \E name \in LunNames, fault \in 0..MaxStoropsCalls :
          UnityOperation("create_lun", <<name>>, fault,
                         create_lun(arr, name, fault))

UnityDeleteLun ==
    /\ last = NoCall
    /\ \E lun_id \in 1..Cardinality(LunNames), fault \in 0..MaxStoropsCalls :
          UnityOperation("delete_lun", <<lun_id>>, fault,
                         delete_lun(arr, lun_id, fault))

UnityCreateSnap ==
    /\ last = NoCall
    /\ \E src_lun_id \in 1..Cardinality(LunNames), name \in SnapNames,
          fault \in 0..MaxStoropsCalls :
          UnityOperation("create_snap", <<src_lun_id, name>>, fault,
                         create_snap(arr, src_lun_id, name, fault))

UnityDeleteSnap ==
    /\ last = NoCall
    /\ \E snap \in arr.snaps \cup {NoSnap, GoneSnap},
          fault \in 0..MaxStoropsCalls :
          UnityOperation("delete_snap", <<snap>>, fault,
                         delete_snap(arr, snap, fault))

UnityCreateIoLimitPolicy ==
    /\ last = NoCall
    /\ \E name \in PolicyNames, max_iops \in {100, 200},
          fault \in 0..MaxStoropsCalls :
          UnityOperation("create_io_limit_policy", <<name, max_iops>>, fault,
                         create_io_limit_policy(arr, name, max_iops, fault))

UnityAttach ==
    /\ last = NoCall
    /\ \E res \in {Res("lun", l) : l \in arr.luns}
                     \cup {Res("snap", n) : n \in arr.snaps},
          fault \in 0..MaxStoropsCalls :
          UnityOperation("attach", <<"h1", res>>, fault,
                         attach(arr, "h1", res, fault))

UnityDetach ==
    /\ last = NoCall
    /\ \E res \in {Res("lun", l) : l \in arr.luns}
                     \cup {Res("snap", n) : n \in arr.snaps},
          fault \in 0..MaxStoropsCalls :
          UnityOperation("detach", <<"h1", res>>, fault,
                         detach(arr, "h1", res, fault))

NextUnity ==
    \/ UnityCreateLun
    \/ UnityDeleteLun
    \/ UnityCreateSnap
    \/ UnityDeleteSnap
    \/ UnityCreateIoLimitPolicy
    \/ UnityAttach
    \/ UnityDetach
    \/ Forget

SpecUnity == InitUnity /\ [][NextUnity]_vars

-----------------------------------------------------------------------------
(* Specification SpecClones: volumes made from snapshots and from volumes.  *)

OneVolume ==
    [EmptyArray EXCEPT !.vols = {[index |-> 1, name |-> "v1", anc |-> 0]},
                       !.cgs = {[index |-> 1, name |-> "g1", vols |-> {}]}]

GroupVolume(id, cg) == [id |-> id, size |-> 1, consistencygroup_id |-> cg]

Snapshot(id, volume_id, cgsnapshot_id, cg) ==
    [id |-> id, volume_id |-> volume_id, cgsnapshot_id |-> cgsnapshot_id,
     consistencygroup_id |-> cg]

InitClones ==
    /\ client \in DriverClients
    /\ arr = OneVolume
    /\ last = NoCall
    /\ portals = <<>>
    /\ tasks = NoTasks

CreateVolumeFromSnapshot ==
    /\ last = NoCall
    /\ \E id \in {"s1"}, cg \in {"", "g1"}, cgsnapshot_id \in {"", "cs1"},
          script \in Scripts : \E snap \in {"v1", "s2"} :
          Operation("create_volume_from_snapshot",
                    <<GroupVolume(id, cg), snap, cgsnapshot_id>>,
                    create_volume_from_snapshot(
                        client, Ctx(arr, script), GroupVolume(id, cg),
                        Snapshot(snap, "v1", cgsnapshot_id, cg)))

CreateClonedVolume ==
    /\ last = NoCall
    /\ \E id \in {"s1"}, cg \in {"", "g1"}, cache \in BOOLEAN,
          limit \in {0, 1}, script \in Scripts :
          \E src \in {"v1", "s2"} :
          Operation("create_cloned_volume",
                    <<GroupVolume(id, cg), src, cache, limit>>,
                    create_cloned_volume(client, Ctx(arr, script),
                                         GroupVolume(id, cg), [id |-> src],
                                         cache, limit))

NextClones ==
    \/ CreateVolumeFromSnapshot
    \/ CreateClonedVolume
    \/ DeleteVolume
    \/ Forget

SpecClones == InitClones /\ [][NextClones]_vars

-----------------------------------------------------------------------------
(* Specification SpecRaces: the lun-map discovery of XtremIOClient3 while   *)
(* concurrent operations delete lun-maps between the listing and the fetch  *)
(* of a listed lun-map.                                                     *)

\* the listing and one fetch for each of the lun-maps of LunMapArrays
MaxRaceScript == 5

RacePlans == {HonestPlan, [busy |-> 0, then |-> Raced]}

RaceScripts == UNION {[1..n -> RacePlans] : n \in 0..MaxRaceScript}

InitRaces ==
    /\ client = [cls |-> "XtremIOClient3", cluster_id |-> ""]
    /\ arr \in LunMapArrays
    /\ last = NoCall
    /\ portals = <<>>
    /\ tasks = NoTasks

FindLunMapRaced ==
    /\ last = NoCall
    /\ \E id \in Ids, ig \in IGNames, script \in RaceScripts :
          Operation("find_lunmap", <<ig, id>>,
                    find_lunmap(client, Ctx(arr, script), ig, id))

NumOfMappedVolumesRaced ==
    /\ last = NoCall
    /\ \E ig \in IGNames, script \in RaceScripts :
          Operation("num_of_mapped_volumes", <<ig>>,
                    num_of_mapped_volumes(client, Ctx(arr, script), ig))

NextRaces == FindLunMapRaced \/ NumOfMappedVolumesRaced \/ Forget

SpecRaces == InitRaces /\ [][NextRaces]_vars

-----------------------------------------------------------------------------
(* Specification SpecPortals: get_iscsi_portals called again and again on   *)
(* one client.  The list self._portals (portals) of an XtremIOClient3 lives *)
(* as long as the client; an XtremIOClient4 keeps none.  The environment    *)
(* scripts the answers to the first req calls of every call.                *)

\* the arrays with no, one, two and three iSCSI portals
PortalArrays ==
    {[EmptyArray EXCEPT
        !.iscsi = SubSeq(@ \o <<[index |-> 3, name |-> "p3",
                                 ip |-> <<"10.0.0.3", "24">>,
                                 iqn |-> "iqn.p3"]>>, 1, n)] : n \in 0..3}

InitPortals ==
    /\ client \in DriverClients
    /\ arr \in PortalArrays
    /\ last = NoCall
    /\ portals = <<>>
    /\ tasks = NoTasks

GetIscsiPortalsEnded(script, res) ==
    /\ last' = [op |-> "get_iscsi_portals", args |-> <<>>, before |-> arr,
                cached |-> portals, out |-> res.out, calls |-> res.ctx.calls]
    /\ arr' = res.ctx.arr
    /\ portals' = res.portals
    /\ UNCHANGED <<client, tasks>>

GetIscsiPortals ==
    /\ last = NoCall
    /\ \E script \in Scripts :
          GetIscsiPortalsEnded(script,
              get_iscsi_portals(client, Ctx(arr, script), portals))

NextPortals == GetIscsiPortals \/ Forget

SpecPortals == InitPortals /\ [][NextPortals]_vars

-----------------------------------------------------------------------------
(* Specification SpecFC: initialize_connection and terminate_connection of  *)
(* XtremIOFCDriver.  client carries the driver's self._targets as           *)
(* client.targets.  The environment scripts the answers to the first req    *)
(* calls of an operation (the array answers, or the transport fails), and   *)
(* gives the order in which a Python set of group names is iterated.        *)

MaxFcScript == 1

FcPlans == {HonestPlan, [busy |-> 0, then |-> TransportFault]}

FcScripts == UNION {[1..n -> FcPlans] : n \in 0..MaxFcScript}

\* initiators 10:00 and 10:01, named by their port address
FcInitiator(i, ig) ==
    [index |-> i, name |-> ColonsJoined(NoColons(<<"10:00", "10:01">>[i])),
     port |-> <<"10:00", "10:01">>[i], ig |-> ig, login |-> "", disc |-> ""]

\* volumes v1 and v2; no initiator, one in ig1, or one in ig1 and one in
\* ig2; no lun-map, or v2 and v1 mapped to ig2 with LUN 1 and 2
FcArrays ==
    {[EmptyArray EXCEPT
        !.vols = {[index |-> 1, name |-> "v1", anc |-> 0],
                  [index |-> 2, name |-> "v2", anc |-> 0]},
        !.inits = inits, !.luns = luns] :
        inits \in {{}, {FcInitiator(1, "ig1")},
                   {FcInitiator(1, "ig1"), FcInitiator(2, "ig2")}},
        luns \in {{}, {[index |-> 1, vol |-> "v2", ig |-> "ig2", lun |-> 1],
                       [index |-> 2, vol |-> "v1", ig |-> "ig2", lun |-> 2]}}}

FcConnectors ==
    [host : {"ig1", "h1"}, wwpns : {<<"10:00">>, <<"10:00", "1001">>}]

HashOrders == {<<"ig1", "ig2", "h1">>, <<"h1", "ig2", "ig1">>}

\* self._targets = None
InitFC ==
    /\ client \in {[cls |-> c.cls, cluster_id |-> c.cluster_id,
                    targets |-> <<>>] : c \in DriverClients}
    /\ arr \in FcArrays
    /\ last = NoCall
    /\ portals = <<>>
    /\ tasks = NoTasks

FcOperation(op, args, res) ==
    /\ last' = [op |-> op, args |-> args, before |-> arr, out |-> res.out,
                calls |-> res.ctx.calls]
    /\ arr' = res.ctx.arr
    /\ client' = [client EXCEPT !.targets = res.targets]
    /\ UNCHANGED <<portals, tasks>>

FcInitializeConnection ==
    /\ last = NoCall
    /\ \E id \in {"v1"}, connector \in FcConnectors,
          hash_order \in HashOrders, script \in FcScripts :
          FcOperation("initialize_connection", <<id, connector>>,
              fc_initialize_connection(client, Ctx(arr, script), id, connector,
                                       hash_order, client.targets))

FcTerminateConnection ==
    /\ last = NoCall
    /\ \E id \in {"v1"}, connector \in FcConnectors,
          script \in FcScripts :
          FcOperation("terminate_connection", <<id, connector>>,
              fc_terminate_connection(client, Ctx(arr, script), id, connector,
                                      client.targets))

NextFC == FcInitializeConnection \/ FcTerminateConnection \/ Forget

SpecFC == InitFC /\ [][NextFC]_vars

-----------------------------------------------------------------------------
(* Specification SpecISCSI: initialize_connection and terminate_connection  *)
(* of XtremIOISCSIDriver for the host iqn.h1.  A call of                    *)
(* initialize_connection may follow another one at once; last.prev is then  *)
(* the record of the call before.  The environment scripts the answers to   *)
(* the first req calls of an operation and gives the random draws.          *)

IscsiConnector == [initiator |-> "iqn.h1"]

\* the initiator of the host, named by its port address, in the group of
\* the same name with index 3
HostInitiator(login, disc) ==
    [index |-> 1, name |-> "iqn.h1", port |-> "iqn.h1", ig |-> "iqn.h1",
     login |-> login, disc |-> disc]

\* the CHAP modes of the cluster: not reported, or login and discovery CHAP
\* enabled or disabled
ChapModes ==
    {[login |-> "", disc |-> ""],
     [login |-> "initiator", disc |-> "disabled"],
     [login |-> "disabled", disc |-> "initiator"],
     [login |-> "initiator", disc |-> "initiator"]}

\* volume v1; the host has no group, an empty group, or a group with its
\* initiator, which has none, one or both of the passwords
IscsiArrays ==
    {[EmptyArray EXCEPT
        !.vols = {[index |-> 1, name |-> "v1", anc |-> 0]},
        !.clusters = <<[@[1] EXCEPT !.login = m.login, !.disc = m.disc]>>,
        !.igs = @ \cup h.igs, !.inits = h.inits] :
        m \in ChapModes,
        h \in {[igs |-> {}, inits |-> {}],
               [igs |-> {[index |-> 3, name |-> "iqn.h1"]}, inits |-> {}]}
              \cup {[igs |-> {[index |-> 3, name |-> "iqn.h1"]},
                     inits |-> {HostInitiator(l, d)}] :
                        l \in {"", "pw0"}, d \in {"", "pw0"}}}

\* the draws of one call: the passwords of _get_password and the portal of
\* RANDOM.choice
Draws ==
    {[login |-> "pw1", disc |-> "pw2", choice |-> 1],
     [login |-> "pw3", disc |-> "pw4", choice |-> 2]}

InitISCSI ==
    /\ client \in DriverClients
                    \cup {[cls |-> "XtremIOClient4", cluster_id |-> ""]}
    /\ arr \in IscsiArrays
    /\ last = NoCall
    /\ portals = <<>>
    /\ tasks = NoTasks

IscsiInitialized(args, res) ==
    /\ last' = [op |-> "initialize_connection", args |-> args,
                before |-> arr, out |-> res.out, calls |-> res.ctx.calls,
                prev |-> IF last = NoCall THEN NoCall
                         ELSE [args |-> last.args, before |-> last.before,
                               out |-> last.out, calls |-> last.calls]]
    /\ arr' = res.ctx.arr
    /\ portals' = res.portals
    /\ client' = res.client
    /\ UNCHANGED tasks

IscsiInitializeConnection ==
    /\ last = NoCall \/ (last.op = "initialize_connection"
                            /\ last.prev = NoCall)
    /\ \E rnd \in Draws, script \in FcScripts :
          IscsiInitialized(<<"v1", IscsiConnector>>,
              iscsi_initialize_connection(client, Ctx(arr, script), "v1",
                                          IscsiConnector, rnd, portals))

IscsiTerminateConnection ==
    /\ last = NoCall
    /\ \E script \in FcScripts :
          Operation("terminate_connection", <<"v1", IscsiConnector>>,
              terminate_connection(client, Ctx(arr, script), "v1",
                  iscsi_get_initiator_names(IscsiConnector)))

NextISCSI == IscsiInitializeConnection \/ IscsiTerminateConnection \/ Forget

SpecISCSI == InitISCSI /\ [][NextISCSI]_vars

-----------------------------------------------------------------------------
(* Specification SpecShared: two calls running concurrently on one client,  *)
(* get_iscsi_portals on XtremIOClient3 and get_cluster on XtremIOClient4.   *)
(* A call gives way to the other while it waits for a response, so a step   *)
(* is a response and the code from there to the next request.  portals is   *)
(* the client's _portals list, tasks[t] the position of call t: its pc, its *)
(* local list of names, its loop index and its outcome.  Every request is   *)
(* answered by the array.                                                   *)

InitShared ==
    /\ client \in {[cls |-> c, cluster_id |-> ""] :
                      c \in {"XtremIOClient3", "XtremIOClient4"}}
    /\ arr = EmptyArray
    /\ last = NoCall
    /\ portals = <<>>
    /\ tasks = NoTasks

Ends(t, out) == tasks' = [tasks EXCEPT ![t] = [@ EXCEPT !.pc = "done", !.out = out]]

\* get_iscsi_portals up to its first request: 'if self._portals: return'
PortalsBegin(t) ==
    /\ client.cls = "XtremIOClient3"
    /\ tasks[t].pc = "idle"
    /\ IF portals # <<>>
       THEN Ends(t, Return("json", portals))
       ELSE tasks' = [tasks EXCEPT ![t] = [Idle EXCEPT !.pc = "list"]]
    /\ UNCHANGED <<client, arr, last, portals>>

\* the listing c has arrived
PortalsListedWith(t, c) ==
    /\ arr' = c.ctx.arr
    /\ IF c.out.kind = "raise" THEN Ends(t, c.out)
       ELSE IF Len(c.out.val["iscsi-portals"]) = 0
       THEN Ends(t, Return("json", portals))
       ELSE tasks' = [tasks EXCEPT ![t] =
                [@ EXCEPT !.pc = "fetch", !.i = 1,
                          !.names = [k \in 1..Len(c.out.val["iscsi-portals"])
                                       |-> c.out.val["iscsi-portals"][k]["name"]]]]
    /\ UNCHANGED <<client, last, portals>>

PortalsListed(t) ==
    /\ client.cls = "XtremIOClient3"
    /\ tasks[t].pc = "list"
    /\ PortalsListedWith(t, Call(client, Ctx(arr, <<>>),
                               Rq(client, "iscsi-portals", "GET", EmptyDict,
                                  "", 0)))

\* the portal c has arrived: it is appended to self._portals; after the last
\* one the call returns self._portals
PortalsFetchedWith(t, c) ==
    /\ arr' = c.ctx.arr
    /\ IF Catches("NotFound", c.out)
       THEN /\ Ends(t, Raise(Exc("VolumeBackendAPIException",
                                 "iscsi portal, %s, not found")))
            /\ UNCHANGED portals
       ELSE IF c.out.kind = "raise"
       THEN Ends(t, c.out) /\ UNCHANGED portals
       ELSE /\ portals' = Append(portals, c.out.val["content"])
            /\ IF tasks[t].i = Len(tasks[t].names)
               THEN Ends(t, Return("json", portals'))
               ELSE tasks' = [tasks EXCEPT ![t] = [@ EXCEPT !.i = @ + 1]]
    /\ UNCHANGED <<client, last>>

PortalsFetched(t) ==
    /\ client.cls = "XtremIOClient3"
    /\ tasks[t].pc = "fetch"
    /\ PortalsFetchedWith(t, Call(client, Ctx(arr, <<>>),
                                Rq(client, "iscsi-portals", "GET", EmptyDict,
                                   tasks[t].names[tasks[t].i], 0)))

\* get_cluster up to its first request: 'if not self.cluster_id'
ClusterBegin(t) ==
    /\ client.cls = "XtremIOClient4"
    /\ tasks[t].pc = "idle"
    /\ tasks' = [tasks EXCEPT ![t] =
            [Idle EXCEPT !.pc = IF client.cluster_id = "" THEN "list"
                                ELSE "fetch"]]
    /\ UNCHANGED <<client, arr, last, portals>>

\* self.cluster_id = self.req('clusters')['clusters'][0]['name']
ClusterListedWith(t, c) ==
    /\ arr' = c.ctx.arr
    /\ IF c.out.kind = "raise"
       THEN Ends(t, c.out) /\ UNCHANGED client
       ELSE IF Len(c.out.val["clusters"]) = 0
       THEN /\ Ends(t, Raise(Exc("IndexError", "list index out of range")))
            /\ UNCHANGED client
       ELSE /\ client' = [client EXCEPT
                            !.cluster_id = c.out.val["clusters"][1]["name"]]
            /\ tasks' = [tasks EXCEPT ![t] = [@ EXCEPT !.pc = "fetch"]]
    /\ UNCHANGED <<last, portals>>

ClusterListed(t) ==
    /\ client.cls = "XtremIOClient4"
    /\ tasks[t].pc = "list"
    /\ ClusterListedWith(t, Call(client, Ctx(arr, <<>>),
                               Rq(client, "clusters", "GET", EmptyDict,
                                  "", 0)))

\* return self.req('clusters', name=self.cluster_id)['content']
ClusterFetchedWith(t, c) ==
    /\ arr' = c.ctx.arr
    /\ IF c.out.kind = "raise" THEN Ends(t, c.out)
       ELSE Ends(t, Return("json", c.out.val["content"]))
    /\ UNCHANGED <<client, last, portals>>

ClusterFetched(t) ==
    /\ client.cls = "XtremIOClient4"
    /\ tasks[t].pc = "fetch"
    /\ ClusterFetchedWith(t, Call(client, Ctx(arr, <<>>),
                                Rq(client, "clusters", "GET", EmptyDict,
                                   client.cluster_id, 0)))

\* the caller of call t has taken its outcome; it may call again
TaskForget(t) ==
    /\ tasks[t].pc = "done"
    /\ tasks' = [tasks EXCEPT ![t] = Idle]
    /\ UNCHANGED <<client, arr, last, portals>>

NextShared ==
    \E t \in Tasks :
        \/ PortalsBegin(t)
        \/ PortalsListed(t)
        \/ PortalsFetched(t)
        \/ ClusterBegin(t)
        \/ ClusterListed(t)
        \/ ClusterFetched(t)
        \/ TaskForget(t)

SpecShared == InitShared /\ [][NextShared]_vars

-----------------------------------------------------------------------------
(* Properties of req and handle_errors (specification Spec)                 *)

\* the answer is the busy token: status 400, message system_is_busy
IsBusyAnswer(g) ==
    /\ g.kind = "resp"
    /\ g.resp.status = 400
    /\ g.resp.json.ok
    /\ "message" \in DOMAIN g.resp.json.val
    /\ g.resp.json.val["message"] = <<"system", "is", "busy">>

\* the answer is a response with status in [200,300)
Is2xxAnswer(g) ==
    g.kind = "resp" /\ g.resp.status >= 200 /\ g.resp.status <= 299

\* the call was not rejected for naming both a name and an index
ArgsAccepted(rq) == ~(rq.name # "" /\ rq.idx # 0)

ReqDone == last.op = "req" /\ ArgsAccepted(last.rq)

\* the answer to the last attempt of the call in `last`
FinalAnswer == last.res.got[Len(last.res.got)]

NumBusy(got) == Cardinality({i \in 1..Len(got) : IsBusyAnswer(got[i])})

\* what a caller of req expects of a 2xx response, by verb
ExpectedResult(method, resp) ==
    IF method \in {"GET", "POST"}
    THEN [kind |-> "return", t |-> "json", val |-> resp.json.val]
    ELSE [kind |-> "return", t |-> "str", val |-> ""]

\* the maximum number of attempts the deployment configures
ConfiguredAttempts ==
    Conf(client, "xtremio_array_busy_retry_count",
         xtremio_array_busy_retry_count)

\* C1: a call whose attempts are all answered busy makes at most the
\* configured maximum number of attempts (xtremio_array_busy_retry_count,
\* 5 by default), sleeps the same fixed time between consecutive attempts
\* and raises XtremIOArrayBusy; a call whose k-th attempt (k <= max) is the
\* first not answered busy, and succeeds, makes exactly k requests and
\* returns that attempt's result.
C1_BusyRetryBounded ==
    ReqDone =>
        LET res == last.res
            n == Len(res.sent)
            k == last.plan.busy + 1
        IN  /\ n <= ConfiguredAttempts
            /\ Len(res.sleeps) = n - 1
            /\ \A i, j \in 1..Len(res.sleeps) : res.sleeps[i] = res.sleeps[j]
            /\ (\A i \in 1..n : IsBusyAnswer(res.got[i])) =>
                  /\ res.out.kind = "raise"
                  /\ res.out.exc.cls = "XtremIOArrayBusy"
            /\ ( /\ k <= ConfiguredAttempts
                 /\ Is2xxAnswer(last.plan.then)
                 /\ last.plan.then.resp.json.ok ) =>
                  /\ n = k
                  /\ \A i \in 1..(k - 1) : IsBusyAnswer(res.got[i])
                  /\ res.out = ExpectedResult(last.rq.method,
                                              last.plan.then.resp)

FailedNotBusy ==
    /\ last.op = "req"
    /\ last.res.out.kind = "raise"
    /\ last.res.out.exc.cls # "XtremIOArrayBusy"

\* C2 as stated: a failure other than ArrayBusy reaches the caller after
\* exactly one attempt, no second HTTP request being issued for the call.
C2_Original == FailedNotBusy => Len(last.res.sent) <= 1

\* C2, amended: a failure other than ArrayBusy is never retried: it reaches
\* the caller from the attempt it occurs in, every earlier attempt of the
\* call was answered busy, and a call whose first attempt fails that way
\* sends one request (none when the arguments are rejected).
C2_NoRetryOfOtherFailures ==
    FailedNotBusy =>
        LET res == last.res
            n == Len(res.sent)
        IN  /\ ~ArgsAccepted(last.rq) => n = 0
            /\ ArgsAccepted(last.rq) => n = NumBusy(res.got) + 1
            /\ \A i \in 1..(n - 1) : IsBusyAnswer(res.got[i])
            /\ (n >= 1 /\ ~IsBusyAnswer(res.got[1])) => n = 1

\* a transport exception on the first attempt: one request, no retry
C2_Witness ==
    /\ FailedNotBusy
    /\ Len(last.res.sent) = 1
    /\ last.res.got[1].kind = "exc"
    /\ last.res.out.exc.cls = "VolumeDriverException"

\* C3 as stated: for a 2xx response, whatever the verb, handle_errors is not
\* invoked and req returns the parsed body.
C3_Original ==
    (ReqDone /\ Is2xxAnswer(FinalAnswer) /\ FinalAnswer.resp.json.ok) =>
        /\ last.res.classified = Len(last.res.got) - 1
        /\ last.res.out =
              [kind |-> "return", t |-> "json", val |-> FinalAnswer.resp.json.val]

\* C3, amended: handle_errors is invoked for exactly the non-2xx responses
\* of a call, never for a 2xx one; for a 2xx response req returns the parsed
\* body unchanged for GET and POST, and the empty string for PUT and DELETE.
C3_SuccessBypassesClassifier ==
    ReqDone =>
        /\ last.res.classified =
              Cardinality({i \in 1..Len(last.res.got) :
                  last.res.got[i].kind = "resp" /\ ~Is2xxAnswer(last.res.got[i])})
        /\ (Is2xxAnswer(FinalAnswer) /\ FinalAnswer.resp.json.ok) =>
              last.res.out = ExpectedResult(last.rq.method, FinalAnswer.resp)

\* a PUT answered 200 after one busy attempt returns ''
C3_Witness ==
    /\ ReqDone
    /\ last.rq.method = "PUT"
    /\ Len(last.res.got) = 2
    /\ Is2xxAnswer(FinalAnswer)
    /\ last.res.classified = 1
    /\ last.res.out.kind = "return"
    /\ last.res.out.t = "str"

\* C4: for any non-2xx response, also one whose status-400 body is a JSON
\* object without a message, handle_errors ends by raising a member of the
\* driver's error taxonomy and never fails with another kind of error.
C4_ClassifierTotal ==
    (ReqDone /\ FinalAnswer.kind = "resp" /\ ~Is2xxAnswer(FinalAnswer)
        /\ FinalAnswer.resp.json.ok) =>
        /\ last.res.out.kind = "raise"
        /\ last.res.out.exc.cls \in Taxonomy

\* The row of the classification table of C5 that a failed response falls
\* in, read top-down (the first matching row decides).
TableRow(resp) ==
    LET m == resp.json.val["message"]
        ends == Len(m) >= 3 /\ SubSeq(m, Len(m) - 2, Len(m)) = <<"obj", "not", "found">>
        mapped == \E i \in 1..(Len(m) - 1) : m[i] = "already" /\ m[i + 1] = "mapped"
    IN  IF resp.status # 400 THEN "Unknown"
        ELSE IF ends THEN "NotFound"
        ELSE IF m = <<"vol", "obj", "name", "not", "unique">>
        THEN "DuplicateName"
        ELSE IF mapped THEN "AlreadyAttached"
        ELSE IF m = <<"system", "is", "busy">> THEN "ArrayBusy"
        ELSE IF m \in {<<"too", "many", "objs">>,
                       <<"too", "many", "snapshots", "per", "vol">>}
        THEN "ResourceLimitExceeded"
        ELSE "Unknown"

\* the exception that stands for each outcome of the table
TableOutcome(resp) ==
    CASE TableRow(resp) = "NotFound" -> [cls |-> "NotFound", msg |-> ""]
      [] TableRow(resp) = "DuplicateName" ->
            [cls |-> "VolumeBackendAPIException",
             msg |-> "Volume by this name already exists"]
      [] TableRow(resp) = "AlreadyAttached" ->
            [cls |-> "XtremIOAlreadyMappedError", msg |-> ""]
      [] TableRow(resp) = "ArrayBusy" -> [cls |-> "XtremIOArrayBusy", msg |-> ""]
      [] TableRow(resp) = "ResourceLimitExceeded" ->
            [cls |-> "XtremIOSnapshotsLimitExceeded", msg |-> ""]
      [] TableRow(resp) = "Unknown" ->
            [cls |-> "VolumeBackendAPIException",
             msg |-> "Bad response from XMS"]

\* the table covers the failed response resp
Covered(resp) ==
    /\ ~(resp.status >= 200 /\ resp.status <= 299)
    /\ \/ resp.status # 400
       \/ resp.json.ok /\ "message" \in DOMAIN resp.json.val

\* the final response of the call was classified and the table covers it
Classified ==
    /\ ReqDone
    /\ FinalAnswer.kind = "resp"
    /\ Covered(FinalAnswer.resp)

IsDuplicateAnswer(g) ==
    /\ g.resp.status = 400
    /\ g.resp.json.val["message"] = <<"vol", "obj", "name", "not", "unique">>

\* the key handle_errors is given for the call in `last`
LastKey ==
    IF last.rq.name # "" THEN last.rq.name
    ELSE IF last.rq.idx # 0 THEN ToStr(last.rq.idx) ELSE "None"

\* C5: classification follows the fixed table, and its six outcomes are
\* pairwise distinguishable: the exception raised for a response is the one
\* of its row, and every response of another row is classified as a
\* different exception.  In particular the exception of the duplicate-name
\* row is not the exception of any Unknown response.
C5_ClassificationTable ==
    Classified =>
        /\ last.res.out.kind = "raise"
        /\ last.res.out.exc = TableOutcome(FinalAnswer.resp)
        /\ \A r \in {x \in MockResponses : Covered(x)} :
              TableRow(r) # TableRow(FinalAnswer.resp) =>
                 handle_errors(r, LastKey, last.rq.object_type)
                    # last.res.out.exc

\* a duplicate-name response was classified, and an Unknown response is
\* among those it is told apart from
C5_Witness ==
    /\ Classified
    /\ IsDuplicateAnswer(FinalAnswer)
    /\ last.res.out.exc.msg = "Volume by this name already exists"
    /\ \E r \in {x \in MockResponses : Covered(x)} :
          /\ TableRow(r) = "Unknown"
          /\ handle_errors(r, LastKey, last.rq.object_type).cls
                = last.res.out.exc.cls

\* C22: a call whose final response has status 400 and the message
\* vol_obj_not_found raises VolumeNotFound, not the NotFound of messages
\* that end in obj_not_found.
C22_VolumeNotFound ==
    (/\ ReqDone
     /\ FinalAnswer.kind = "resp"
     /\ FinalAnswer.resp.status = 400
     /\ FinalAnswer.resp.json.ok
     /\ "message" \in DOMAIN FinalAnswer.resp.json.val
     /\ FinalAnswer.resp.json.val["message"] = VOL_OBJ_NOT_FOUND_ERR)
        => (last.res.out.kind = "raise"
               /\ last.res.out.exc.cls = "VolumeNotFound")

-----------------------------------------------------------------------------
(* Properties of the driver operations (specifications SpecVolumes and      *)
(* SpecLunMaps).  `last` holds the operation, its arguments, the array      *)
(* before it, its outcome and its req calls.                                *)

\* the answer to the last attempt of the req call c of an operation
CallAnswer(c) == c.got[Len(c.got)]

\* the req call c ended on a status-400 response with message m
AnsweredToken(c, m) ==
    /\ Len(c.got) >= 1
    /\ CallAnswer(c).kind = "resp"
    /\ CallAnswer(c).resp.status = 400
    /\ CallAnswer(c).resp.json.ok
    /\ "message" \in DOMAIN CallAnswer(c).resp.json.val
    /\ CallAnswer(c).resp.json.val["message"] = m

\* every req call of the operation was answered by the array
NoFaults == \A i \in 1..Len(last.calls) : last.calls[i].plan = HonestPlan

\* the array holds a volume or snapshot named n
Holds(a, n) == \E v \in a.vols : v.name = n

\* a second create_volume of an id, answered with the duplicate-name token
DuplicateCreate ==
    /\ last.op = "create_volume"
    /\ Holds(last.before, last.args[1])
    /\ AnsweredToken(last.calls[1], <<"vol", "obj", "name", "not", "unique">>)

\* C6: create_volume is create-or-fetch: a create_volume of an id the array
\* already holds, the POST being answered with the duplicate-name token,
\* completes without raising; DuplicateName does not surface to the caller.
C6_Original == DuplicateCreate => last.out.kind = "return"

DeleteDone == last.op \in {"delete_volume", "delete_snapshot"}

\* C7: a delete_volume or delete_snapshot whose DELETE is answered NotFound
\* returns normally after that one req call; in particular the delete of a
\* key the array does not hold (deleted before, or never there) returns
\* normally and leaves the array as it was.
C7_DeleteOrIgnore ==
    DeleteDone =>
        /\ ( /\ last.calls[1].out.kind = "raise"
             /\ last.calls[1].out.exc.cls \in {"NotFound", "VolumeNotFound"} ) =>
              /\ last.out.kind = "return"
              /\ Len(last.calls) = 1
        /\ (~Holds(last.before, last.args[1]) /\ NoFaults) =>
              /\ last.out.kind = "return"
              /\ arr = last.before

\* delete_snapshot of s1 on an array that holds a volume but not s1: the
\* array answers NotFound and the operation returns
C7_Witness ==
    /\ last.op = "delete_snapshot"
    /\ last.args[1] = "s1"
    /\ last.before.vols # {}
    /\ ~Holds(last.before, "s1")
    /\ NoFaults
    /\ AnsweredToken(last.calls[1], <<"vol", "obj", "not", "found">>)
    /\ last.out.kind = "return"

\* C8: in XtremIOClient4.create_snapshot, whenever the snapshot-set POST
\* succeeded and the rename PUT failed, with whatever error, a DELETE of the
\* object just created is the next req call and the caller receives the
\* error of the rename.
C8_RenameCompensated ==
    ( /\ last.op = "create_snapshot"
      /\ client.cls = "XtremIOClient4"
      /\ Len(last.calls) >= 2
      /\ last.calls[1].out.kind = "return"
      /\ last.calls[2].rq.method = "PUT"
      /\ last.calls[2].out.kind = "raise" ) =>
        /\ Len(last.calls) >= 3
        /\ last.calls[3].rq.method = "DELETE"
        /\ last.calls[3].rq.object_type = last.calls[2].rq.object_type
        /\ last.calls[3].rq.idx = last.calls[2].rq.idx
        /\ last.out = last.calls[2].out

\* create_lun_map whose POST was answered with the already-mapped token and
\* whose lookup of the existing lun-map was given the array's listing and met
\* no error but objects not found
AlreadyMapped ==
    /\ last.op = "create_lun_map"
    /\ last.calls[1].out.kind = "raise"
    /\ last.calls[1].out.exc.cls = "XtremIOAlreadyMappedError"
    /\ Len(last.calls) >= 2
    /\ last.calls[2].plan = HonestPlan
    /\ \A i \in 2..Len(last.calls) :
          last.calls[i].out.kind = "raise" =>
              last.calls[i].out.exc.cls \in {"NotFound", "VolumeNotFound"}

\* C9: when the lun-map POST is answered with the already-mapped token,
\* create_lun_map does not raise and returns a lun-map record of that
\* initiator group and volume that carries its LUN number, never None.
C9_AttachOrFetch ==
    AlreadyMapped =>
        /\ last.out.kind = "return"
        /\ last.out.t = "json"
        /\ {"ig-name", "vol-name", "lun"} \subseteq DOMAIN last.out.val
        /\ last.out.val["vol-name"] = last.args[1]
        /\ last.out.val["ig-name"] = last.args[2]

VariantA == [cls |-> "XtremIOClient3", cluster_id |-> ""]

VariantB == [cls |-> "XtremIOClient4", cluster_id |-> "c1"]

\* two outcomes are logically the same: the same result, or the same kind
\* of error
SameOutcome(a, b) ==
    /\ a.kind = b.kind
    /\ a.kind = "raise" => a.exc.cls = b.exc.cls
    /\ a.kind = "return" => a.t = b.t /\ (a.t # "none" => a.val = b.val)

\* C10: on the array state an undisturbed find_lunmap or
\* num_of_mapped_volumes ran on, with its arguments, Variant A and Variant B
\* have the same outcome, which is the outcome the operation had.
C10_VariantsEquivalent ==
    /\ (last.op = "find_lunmap" /\ NoFaults) =>
          /\ SameOutcome(
                find_lunmap3(VariantA, Ctx(last.before, <<>>),
                             last.args[1], last.args[2]).out,
                find_lunmap4(VariantB, Ctx(last.before, <<>>),
                             last.args[1], last.args[2]).out)
          /\ SameOutcome(
                last.out,
                find_lunmap4(VariantB, Ctx(last.before, <<>>),
                             last.args[1], last.args[2]).out)
    /\ (last.op = "num_of_mapped_volumes" /\ NoFaults) =>
          /\ SameOutcome(
                num_of_mapped_volumes3(VariantA, Ctx(last.before, <<>>),
                                       last.args[1]).out,
                num_of_mapped_volumes4(VariantB, Ctx(last.before, <<>>),
                                       last.args[1]).out)
          /\ SameOutcome(
                last.out,
                num_of_mapped_volumes4(VariantB, Ctx(last.before, <<>>),
                                       last.args[1]).out)

-----------------------------------------------------------------------------
(* Properties of the driver's setup (specification SpecSetup)               *)

\* the major number of the software version the array reports
ProbedMajor(a) == ToInt(a.clusters[1].version[1])

\* one step of the driver, seen from both its ends
VariantStep ==
    /\ client'.cls # client.cls =>
          /\ last'.op = "check_for_setup_error"
          /\ last'.out.kind = "return"
          /\ client.cls = "XtremIOClient3"
          /\ client'.cls = "XtremIOClient4"
    /\ (last'.op = "check_for_setup_error" /\ last'.out.kind = "return") =>
          (client'.cls = "XtremIOClient4" <=> ProbedMajor(arr) >= 4)
    /\ ( /\ last'.op = "check_for_setup_error"
         /\ \A i \in 1..Len(last'.calls) : last'.calls[i].out.kind = "return"
         /\ Len(arr.clusters) > 0
         /\ ProbedMajor(arr) < 3 ) =>
          /\ last'.out.kind = "raise"
          /\ last'.out.exc.cls = "VolumeBackendAPIException"
          /\ client' = client

\* C11: the driver starts on XtremIOClient3; a check_for_setup_error that
\* succeeds leaves XtremIOClient4 exactly when the major version it probed is
\* at least 4; one that probed a version below 3.0.0 raises
\* VolumeBackendAPIException and leaves the client as it was; no other
\* operation changes the client, and XtremIOClient4 is never replaced by
\* XtremIOClient3.
C11_VariantOneShot ==
    /\ client.cls = "XtremIOClient3"
    /\ [][VariantStep]_vars

\* check_for_setup_error on an array of version 4.0.2 has switched the driver
\* to XtremIOClient4
C11_Witness ==
    /\ last.op = "check_for_setup_error"
    /\ last.out.kind = "return"
    /\ ProbedMajor(last.before) = 4
    /\ client.cls = "XtremIOClient4"

-----------------------------------------------------------------------------
(* Properties of the requests req sends (specification Spec)                *)

\* the request h names its target in the query / addresses it by index in
\* the URL
HasName(h) == "name" \in DOMAIN h.params

HasIndex(h) == h.idx # 0

\* the requests of the call in `last`
Sent == {last.res.sent[i] : i \in 1..Len(last.res.sent)}

\* a call given both a name and an index is rejected with
\* VolumeDriverException before any request is sent
BothRejected ==
    (last.rq.name # "" /\ last.rq.idx # 0) =>
        /\ last.res.out.kind = "raise"
        /\ last.res.out.exc.cls = "VolumeDriverException"
        /\ last.res.sent = <<>>

\* C12 as stated: every request req sends carries exactly one of name and
\* index, never both and never neither.
C12_Original ==
    last.op = "req" =>
        /\ BothRejected
        /\ \A h \in Sent : HasName(h) # HasIndex(h)

\* C12, amended: every request req sends carries at most one of name and
\* index: the name when the call gives one, the index when it gives an index
\* and no name, and neither when the call gives neither (requests on a
\* collection: listings and creations); a call that gives both is rejected
\* before any request is sent.
C12_AtMostOneKey ==
    last.op = "req" =>
        /\ BothRejected
        /\ \A h \in Sent :
              /\ ~(HasName(h) /\ HasIndex(h))
              /\ HasName(h) <=> last.rq.name # ""
              /\ HasIndex(h) <=> (last.rq.idx # 0 /\ last.rq.name = "")
              /\ HasName(h) => h.params["name"] = last.rq.name
              /\ HasIndex(h) => h.idx = last.rq.idx

\* a call with neither name nor index has sent a request that carries
\* neither
C12_Witness ==
    /\ last.op = "req"
    /\ last.rq.name = ""
    /\ last.rq.idx = 0
    /\ last.rq.method = "POST"
    /\ Len(last.res.sent) = 1
    /\ ~HasName(last.res.sent[1])
    /\ ~HasIndex(last.res.sent[1])

\* the client adds its cluster id to requests
Injects == client.cls = "XtremIOClient4" /\ client.cluster_id # ""

\* C13 as stated: under XtremIOClient4 every request carries cluster-name in
\* its query and cluster-id in its body, whatever the verb; under
\* XtremIOClient3 no request carries either.
C13_Original ==
    last.op = "req" =>
        \A h \in Sent :
            IF client.cls = "XtremIOClient4"
            THEN "cluster-name" \in DOMAIN h.params
                    /\ "cluster-id" \in DOMAIN h.data
            ELSE "cluster-name" \notin DOMAIN h.params
                    /\ "cluster-id" \notin DOMAIN h.data

\* C13, amended: under XtremIOClient4 with a cluster id configured, the
\* query of every GET and DELETE request carries cluster-name and the body
\* of every POST, PUT and DELETE request carries cluster-id, both with the
\* configured id; no other query carries cluster-name and no other body
\* cluster-id, so under XtremIOClient3, or without a configured cluster id,
\* no request carries either.
C13_ClusterInjection ==
    last.op = "req" =>
        \A h \in Sent :
            /\ "cluster-name" \in DOMAIN h.params <=>
                  (Injects /\ h.method \in {"GET", "DELETE"})
            /\ "cluster-id" \in DOMAIN h.data <=>
                  (Injects /\ h.method # "GET")
            /\ "cluster-name" \in DOMAIN h.params =>
                  h.params["cluster-name"] = client.cluster_id
            /\ "cluster-id" \in DOMAIN h.data =>
                  h.data["cluster-id"] = client.cluster_id

\* a POST under XtremIOClient4 with cluster id c1: cluster-id in the body,
\* no cluster-name in the query
C13_Witness ==
    /\ last.op = "req"
    /\ Injects
    /\ last.rq.method = "POST"
    /\ Len(last.res.sent) = 1
    /\ "cluster-id" \in DOMAIN last.res.sent[1].data
    /\ "cluster-name" \notin DOMAIN last.res.sent[1].params

\* C14: all attempts of one req call send the same request: verb, URL, name
\* or index, query parameters and body.
C14_RetriesVerbatim ==
    last.op = "req" =>
        \A i \in 1..Len(last.res.sent) : last.res.sent[i] = last.res.sent[1]

-----------------------------------------------------------------------------
(* Properties of concurrent calls on one client (specification SpecShared)  *)

\* what get_iscsi_portals returns when it runs alone on array a: the content
\* of every portal, once, in the order of the listing
AlonePortals(a) == [k \in 1..Len(a.iscsi) |-> PortalContent(a.iscsi[k])]

\* what get_cluster returns when it runs alone on array a
AloneCluster(a) == ClusterContent(a.clusters[1])

\* C15: however two concurrent calls on one client interleave, each call
\* returns what it would return when run alone (get_iscsi_portals on
\* XtremIOClient3, get_cluster on XtremIOClient4), and the client's portal
\* list never holds the same portal twice.
C15_NoSharedMutableState ==
    /\ \A i, j \in 1..Len(portals) : i # j => portals[i] # portals[j]
    /\ \A t \in Tasks :
          (tasks[t].pc = "done" /\ tasks[t].out.kind = "return") =>
              tasks[t].out.val = IF client.cls = "XtremIOClient3"
                                 THEN AlonePortals(arr)
                                 ELSE AloneCluster(arr)

-----------------------------------------------------------------------------
(* Properties of the portal list of XtremIOClient3 (specification           *)
(* SpecPortals)                                                             *)

\* C28: after any sequence of get_iscsi_portals calls, failed ones included,
\* the client's portal list is empty or holds the content of every listed
\* portal exactly once.
C28_PortalCacheAllOrNothing ==
    portals = <<>> \/ portals = AlonePortals(arr)

-----------------------------------------------------------------------------
(* Properties of _get_free_lun (specification SpecFreeLun)                  *)

\* the LUN numbers in use in the initiator groups igs on array a
UsedLuns(a, igs) ==
    {m.lun : m \in {x \in a.luns : \E k \in 1..Len(igs) : x.ig = igs[k]}}

\* C16: the number _get_free_lun returns is at least 1, is the LUN number of
\* no lun-map of the given initiator groups, and every smaller number from 1
\* on is in use in them.
C16_FreeLunSmallestUnused ==
    (last.op = "_get_free_lun" /\ last.out.kind = "return") =>
        /\ last.out.val >= 1
        /\ last.out.val \notin UsedLuns(last.before, last.args[1])
        /\ \A n \in 1..(last.out.val - 1) :
              n \in UsedLuns(last.before, last.args[1])

\* LUNs 1 and 3 are in use in the two groups: 2 is returned
C16_Witness ==
    /\ last.op = "_get_free_lun"
    /\ last.args[1] = <<"ig1", "ig2">>
    /\ UsedLuns(last.before, last.args[1]) = {1, 3}
    /\ last.out.kind = "return"
    /\ last.out.val = 2

-----------------------------------------------------------------------------
(* Properties of the group-level deletions (specification SpecGroups)       *)

\* the consistency group or snapshot set the last deletion names is not on
\* the array it was called on
GroupAbsent ==
    \/ /\ last.op = "delete_consistencygroup"
       /\ ~\E g \in last.before.cgs : g.name = last.args[1]
    \/ /\ last.op = "delete_cgsnapshot"
       /\ ~\E n \in last.before.snapsets :
              n.name = get_cgsnap_name(CgSnapshot(last.args[1], last.args[2]))

\* C17: delete_consistencygroup and delete_cgsnapshot called for a group or
\* snapshot set that is absent on the array (every request answered by the
\* array, which answers not found) return instead of raising.
C17_GroupDeleteOrIgnore ==
    (GroupAbsent /\ NoFaults) => last.out.kind = "return"

-----------------------------------------------------------------------------
(* Properties of UnityClient (specification SpecUnity)                      *)

UnityOps ==
    {"create_lun", "delete_lun", "create_snap", "delete_snap",
     "create_io_limit_policy", "attach", "detach"}

\* C18: every error an operation of UnityClient catches and does not raise
\* again is followed by a log record before the operation goes on.
C18_SuppressedErrorsLogged ==
    last.op \in UnityOps =>
        \A i \in 1..Len(last.events) :
            last.events[i].kind = "suppressed" =>
                /\ i < Len(last.events)
                /\ last.events[i + 1].kind = "log"

\* the objects of the kind the last creation makes, on system sys
MadeObjects(sys) ==
    CASE last.op = "create_lun" -> sys.luns
      [] last.op = "create_snap" -> sys.snaps
      [] OTHER -> sys.policies

\* the name the last creation asks for
MadeName ==
    IF last.op = "create_snap" THEN last.args[2] ELSE last.args[1]

\* a creation whose storops calls all work and, for a snapshot, whose source
\* LUN exists
Creation ==
    /\ last.op \in {"create_lun", "create_snap", "create_io_limit_policy"}
    /\ last.fault = 0
    /\ last.op = "create_snap" =>
           \E l \in last.before.luns : l.id = last.args[1]

NameInUse == \E o \in MadeObjects(last.before) : o.name = MadeName

\* C19: create_lun, create_snap and create_io_limit_policy return the object
\* of the given name that is on the system afterwards; when the name was in
\* use they return the existing object and leave the system as it was, so a
\* second call with the same name returns the object of the first.
C19_CreateOrFetch ==
    Creation =>
        /\ last.out.kind = "return"
        /\ last.out.val \in MadeObjects(arr)
        /\ last.out.val.name = MadeName
        /\ NameInUse => (last.out.val \in MadeObjects(last.before)
                            /\ arr = last.before)

\* create_snap for a name in use returned the existing snapshot
C19_Witness ==
    /\ last.op = "create_snap"
    /\ Creation
    /\ NameInUse
    /\ last.out.kind = "return"
    /\ last.out.val \in last.before.snaps

\* the LUN or snapshot the last deletion names is not on the system
Absent ==
    \/ /\ last.op = "delete_lun"
       /\ ~\E l \in last.before.luns : l.id = last.args[1]
    \/ /\ last.op = "delete_snap"
       /\ last.args[1] \notin last.before.snaps

\* C20 as stated: deleting what is absent returns normally, and the only
\* error delete_snap raises is the snapshot-is-attached error.
C20_Original ==
    /\ (Absent /\ last.fault = 0) => last.out.kind = "return"
    /\ (last.op = "delete_snap" /\ last.out.kind = "raise") =>
           last.out.exc.cls = "UnityDeleteAttachedSnapError"

\* C20: delete_lun on an id that does not exist and delete_snap on None or on
\* a snapshot already gone return without raising and leave the system as it
\* was; delete_snap raises the snapshot-is-attached error of an attached
\* snapshot unchanged after logging it, and any other error of the library
\* reaches the caller as well.
C20_DeleteOrIgnore ==
    /\ (Absent /\ last.fault = 0) =>
           (last.out.kind = "return" /\ arr = last.before)
    /\ (last.op = "delete_snap" /\ last.out.kind = "raise") =>
           \/ /\ last.out.exc.cls = "UnityDeleteAttachedSnapError"
              /\ Attached(last.before, Res("snap", last.args[1]))
              /\ last.events = <<Log("warning")>>
              /\ arr = last.before
           \/ /\ last.out.exc.cls = "UnityException"
              /\ last.fault = 1

\* delete_snap on a snapshot that is already gone returned
C20_Witness ==
    /\ last.op = "delete_snap"
    /\ last.args[1] = GoneSnap
    /\ last.fault = 0
    /\ last.out.kind = "return"
    /\ last.events = <<Suppressed("UnityResourceNotFoundError"), Log("debug")>>

-----------------------------------------------------------------------------
(* Properties of the volume copies (specification SpecClones)               *)

\* the last operation issued a consistency-group-volumes POST for the volume
AddedToGroup(vol_id) ==
    \E i \in 1..Len(last.calls) :
        /\ last.calls[i].rq.object_type = "consistency-group-volumes"
        /\ last.calls[i].rq.method = "POST"
        /\ last.calls[i].rq.data["vol-id"] = vol_id

\* C21: under Variant B, create_volume_from_snapshot and create_cloned_volume
\* that return for a volume with a consistencygroup_id have issued a
\* consistency-group-volumes POST for that volume.
C21_CopyJoinsGroup ==
    (/\ last.op \in {"create_volume_from_snapshot", "create_cloned_volume"}
     /\ client.cls = "XtremIOClient4"
     /\ last.args[1].consistencygroup_id # ""
     /\ last.out.kind = "return")
        => AddedToGroup(last.args[1].id)

-----------------------------------------------------------------------------
(* Properties of the lun-map discovery under races (specification           *)
(* SpecRaces).  arr is the array after the operation: the array before it   *)
(* without the lun-maps deleted concurrently.                               *)

\* a listed lun-map had vanished when the last operation fetched it
SomeVanished ==
    \E i \in 2..Len(last.calls) : Catches("NotFound", last.calls[i].out)

\* the lun-maps of a for initiator group ig and volume vol
MapsOf(a, ig, vol) == {m \in a.luns : m.ig = ig /\ m.vol = vol}

\* C23: XtremIOClient3.find_lunmap and num_of_mapped_volumes skip the listed
\* lun-maps that have vanished when they are fetched and go on: find_lunmap
\* returns the lun-map of the group and volume if it still exists (None if
\* not), num_of_mapped_volumes returns the number of lun-maps of the group
\* that still exist.
C23_DiscoveryToleratesRaces ==
    /\ last.op = "find_lunmap" =>
          /\ last.out.kind = "return"
          /\ IF MapsOf(arr, last.args[1], last.args[2]) = {}
             THEN last.out.t = "none"
             ELSE /\ last.out.t = "json"
                  /\ \E m \in MapsOf(arr, last.args[1], last.args[2]) :
                        last.out.val = LunMapContent(m)
    /\ last.op = "num_of_mapped_volumes" =>
          /\ last.out.kind = "return"
          /\ last.out.val =
                Cardinality({m \in arr.luns : m.ig = last.args[1]})

\* find_lunmap found a lun-map listed after one that had vanished
C23_Witness ==
    /\ last.op = "find_lunmap"
    /\ SomeVanished
    /\ Catches("NotFound", last.calls[2].out)
    /\ last.out.kind = "return"
    /\ last.out.t = "json"
    /\ arr # last.before

-----------------------------------------------------------------------------
(* Properties of the Fibre Channel connections (specification SpecFC)       *)

\* the initiator groups on array a of the initiators with the port addresses
\* names
GroupsOfInitiators(a, names) ==
    {o.ig : o \in {x \in a.inits : \E k \in 1..Len(names) : x.port = names[k]}}

\* the lun-maps on array a of volume vol to the groups igs
MapsTo(a, vol, igs) == {m \in a.luns : m.vol = vol /\ m.ig \in igs}

\* the port addresses, without colons, of the array's Fibre Channel targets
\* that are up
UpFcTargets(a) ==
    LET up == SelectSeq(a.targets,
                        LAMBDA t : HasFc(t.name) /\ t.state = "up")
    IN  [k \in 1..Len(up) |-> NoColons(up[k].port)]

\* the zone-removal data for the initiators names of array a
ZoneRemoval(a, names) ==
    [target_wwn |-> UpFcTargets(a),
     initiator_target_map |->
        [n \in {NoColons(names[k]) : k \in 1..Len(names)} |-> UpFcTargets(a)]]

\* every req call of the last operation was answered by the array
AllAnswered == \A k \in 1..Len(last.calls) : last.calls[k].plan = HonestPlan

\* C24: FC terminate_connection removes the volume's lun-map for every
\* initiator group of the connector's initiators and no other lun-map; a
\* lun-map that is already absent does not make it fail; then it returns
\* the zone-removal data (target_wwn, initiator_target_map) if and only if
\* no volume remains mapped to the connector's initiator group, and empty
\* data otherwise.
C24_FcTerminate ==
    last.op = "terminate_connection" =>
        LET vol == last.args[1]
            names == fc_get_initiator_names(last.args[2])
            host == fc_get_ig_name(last.args[2])
            groups == GroupsOfInitiators(last.before, names)
        IN  /\ (/\ AllAnswered
                /\ \E v \in last.before.vols : v.name = vol
                /\ \A k \in 1..Len(names) :
                      \E o \in last.before.inits : o.port = names[k])
                    => last.out.kind = "return"
            /\ last.out.kind = "return" =>
                 /\ MapsTo(arr, vol, groups) = {}
                 /\ arr.luns = last.before.luns
                                  \ MapsTo(last.before, vol, groups)
                 /\ last.out.val["data"] =
                        IF \E m \in arr.luns : m.ig = host THEN EmptyDict
                        ELSE ZoneRemoval(arr, names)

\* C24 witness: the connector's initiators are in two groups, the volume was
\* mapped to one of them only, and the call has removed that lun-map and
\* returned the zone-removal data
C24_Witness ==
    /\ last.op = "terminate_connection"
    /\ last.out.kind = "return"
    /\ LET vol == last.args[1]
           groups == GroupsOfInitiators(last.before,
                                        fc_get_initiator_names(last.args[2]))
       IN  /\ Cardinality(groups) = 2
           /\ Cardinality(MapsTo(last.before, vol, groups)) = 1
           /\ MapsTo(arr, vol, groups) = {}
    /\ last.out.val["data"] # EmptyDict

\* C27: after FC initialize_connection the volume is mapped to every
\* initiator group of the connector's initiators with one and the same LUN
\* number, and the returned target_lun is that number.
C27_FcSameLun ==
    (last.op = "initialize_connection" /\ last.out.kind = "return") =>
        LET vol == last.args[1]
            groups == GroupsOfInitiators(arr,
                                         fc_get_initiator_names(last.args[2]))
        IN  \A g \in groups :
               \E m \in arr.luns :
                  /\ m.vol = vol
                  /\ m.ig = g
                  /\ m.lun = last.out.val["data"]["target_lun"]

-----------------------------------------------------------------------------
(* Properties of the iSCSI connections (specification SpecISCSI)            *)

\* the number of create requests for objects of type among calls
Creates(calls, type) ==
    Cardinality({k \in 1..Len(calls) :
                    calls[k].rq.object_type = type
                        /\ calls[k].rq.method = "POST"})

\* the CHAP credentials among the connection properties data
Credentials(data) ==
    [k \in DOMAIN data \cap
              {"auth_method", "auth_username", "auth_password",
               "discovery_auth_method", "discovery_auth_username",
               "discovery_auth_password"} |-> data[k]]

\* the call with record c, on the array c.before, has sent no create request
\* for the host's initiator group or initiator if that object existed
NoCreateOfExisting(c) ==
    /\ (\E g \in c.before.igs : g.name = iscsi_get_ig_name(c.args[2]))
          => Creates(c.calls, "initiator-groups") = 0
    /\ (\E o \in c.before.inits :
           o.port = iscsi_get_initiator_names(c.args[2])[1])
          => Creates(c.calls, "initiators") = 0

\* C25: two calls of iSCSI initialize_connection in a row for the same
\* volume and connector create the initiator group at most once and the
\* initiator at most once, send no create request for an object that
\* exists already, and, when both return, return the same target_lun and
\* the same CHAP credentials.
C25_IscsiGetOrCreate ==
    (last.op = "initialize_connection" /\ last.prev # NoCall
        /\ last.prev.args = last.args) =>
        /\ Creates(last.prev.calls, "initiator-groups")
              + Creates(last.calls, "initiator-groups") <= 1
        /\ Creates(last.prev.calls, "initiators")
              + Creates(last.calls, "initiators") <= 1
        /\ NoCreateOfExisting(last.prev)
        /\ NoCreateOfExisting(last)
        /\ (last.prev.out.kind = "return" /\ last.out.kind = "return") =>
              /\ last.out.val["data"]["target_lun"]
                    = last.prev.out.val["data"]["target_lun"]
              /\ Credentials(last.out.val["data"])
                    = Credentials(last.prev.out.val["data"])

\* C25 witness: the first of two calls has created the group and the
\* initiator with a login password, and the second call has returned that
\* password
C25_Witness ==
    /\ last.op = "initialize_connection"
    /\ last.prev # NoCall
    /\ Creates(last.prev.calls, "initiator-groups") = 1
    /\ Creates(last.prev.calls, "initiators") = 1
    /\ last.prev.out.kind = "return"
    /\ last.out.kind = "return"
    /\ "auth_password" \in DOMAIN last.out.val["data"]
    /\ last.out.val["data"]["auth_password"] # ""
    /\ last.out.val["data"]["auth_password"]
          = last.prev.out.val["data"]["auth_password"]

\* the initiator of the connector on array a
InitiatorOf(a, connector) ==
    CHOOSE o \in a.inits : o.port = iscsi_get_initiator_names(connector)[1]

\* C26: when iSCSI initialize_connection returns and the cluster has login
\* CHAP enabled, auth_password is a non-empty password, the one set on the
\* array's initiator; likewise discovery_auth_password when the cluster has
\* discovery CHAP enabled.
C26_ChapPasswordsSet ==
    (last.op = "initialize_connection" /\ last.out.kind = "return") =>
        LET data == last.out.val["data"]
            o == InitiatorOf(arr, last.args[2])
        IN  /\ arr.clusters[1].login \notin {"", "disabled"} =>
                  /\ "auth_password" \in DOMAIN data
                  /\ data["auth_password"] # ""
                  /\ data["auth_password"] = o.login
            /\ arr.clusters[1].disc \notin {"", "disabled"} =>
                  /\ "discovery_auth_password" \in DOMAIN data
                  /\ data["discovery_auth_password"] # ""
                  /\ data["discovery_auth_password"] = o.disc

=============================================================================
